---- MODULE Spec2Model ----
(***************************************************************************)
(* A model of the price-discovery pipeline of amazon-music-buyer's         *)
(* pricing service (pricing-service/src/scraper.ts, index.ts):             *)
(*   - chunkArray, the partition of the item list;                         *)
(*   - searchMultipleTracks, the batch scheduler over a pool of sessions;  *)
(*   - searchForTrackWithPage / searchForTrack, the per-item extractors,   *)
(*     and searchMultipleTracksSequential, the sequential loop;            *)
(*   - the analyze and price commands of index.ts.                         *)
(* Prices are integers in cents.  A JavaScript `undefined` optional field  *)
(* is the value Undefined; an absent album is the empty string (the source *)
(* only ever tests `item.album ? .. : ..`, which treats both alike).       *)
(***************************************************************************)
EXTENDS Integers, Sequences, FiniteSets, TLC

\* ------------------------------------------------------------------ bounds
\* Longest item list handed to the batch scheduler.
MaxItems == 3
\* Largest concurrency handed to the batch scheduler.
MaxConc == 3
\* Longest array and largest chunk size handed to chunkArray on its own.
MaxArrayLen == 5
MaxChunkSize == 4
\* Most search results a page shows, and most texts a price cascade reads.
MaxResults == 6
MaxPriceTexts == 2
\* Longest item list handed to the sequential loop.
MaxSeqItems == 2

Min(a, b) == IF a < b THEN a ELSE b
Max(a, b) == IF a < b THEN b ELSE a

\* ------------------------------------------------------------- data model
Undefined == "<undefined>"
\* `undefined` where the field holds a text (a sequence of characters).
UndefinedText == << Undefined >>

\* searchMultipleTracks(items: MusicItem[], concurrency: number = 3), called
\* by analyze with the items only
DefaultConcurrency == 3
\* this.maxRetries = options.maxRetries ?? 3
DefaultMaxRetries == 3
\* The values the maxRetries option is given: none, or the default.
RetryOptions == { 0, DefaultMaxRetries }

\* MusicItem values the runs draw their item lists from.
ItemPool ==
  { [artist |-> "Queen", song |-> "Bohemian Rhapsody", album |-> "A Night at the Opera"],
    [artist |-> "Adele", song |-> "Hello", album |-> ""] }

SeqsUpTo(S, n) == UNION { [1..k -> S] : k \in 0..n }

\* The query without the album: `${item.artist} ${item.song}`
SearchQueryNoAlbum(item) == item.artist \o " " \o item.song

\* `${item.artist} ${item.song}${item.album ? ` ${item.album}` : ''}`
SearchQuery(item) ==
  item.artist \o " " \o item.song \o
    (IF item.album # "" /\ item.album # Undefined THEN " " \o item.album ELSE "")

\* The record built from artist and song only: the item's album is not copied.
InitialResultNoSpread(item) ==
  [ artist |-> item.artist, song |-> item.song, album |-> Undefined,
    trackPrice |-> 0, available |-> FALSE, searchQuery |-> SearchQuery(item),
    error |-> Undefined, albumPrice |-> 0, albumName |-> UndefinedText ]

\* The record every extractor starts from: { ...item, trackPrice: 0, available: false, searchQuery }
InitialResult(item) ==
  [ artist |-> item.artist, song |-> item.song, album |-> item.album,
    trackPrice |-> 0, available |-> FALSE, searchQuery |-> SearchQuery(item),
    error |-> Undefined, albumPrice |-> 0, albumName |-> UndefinedText ]

\* The record the chunk task builds when the extractor call throws.
FallbackResult(item, message) ==
  [ InitialResult(item) EXCEPT !.error = "Parallel processing failed: " \o message ]

\* ------------------------------------------------------------- chunkArray
\* Array.prototype.slice(start, end): the elements at the 0-based positions
\* from .. to - 1, where a negative index counts from the end of the array and
\* both are clamped to 0 .. length.
slice(array, start, end) ==
  LET from == IF start < 0 THEN Max(Len(array) + start, 0) ELSE Min(start, Len(array))
      to == IF end < 0 THEN Max(Len(array) + end, 0) ELSE Min(end, Len(array))
  IN  SubSeq(array, from + 1, to)

\* A chunk one element short: slice(i, i + chunkSize - 1).
chunkAtShort(array, i, chunkSize) == slice(array, i, i + chunkSize - 1)

\* A chunk one element long: slice(i, i + chunkSize + 1).
chunkAtLong(array, i, chunkSize) == slice(array, i, i + chunkSize + 1)

\* array.slice(i, i + chunkSize)
chunkAt(array, i, chunkSize) == slice(array, i, i + chunkSize)

RECURSIVE chunkLoop(_, _, _, _)
chunkLoop(array, chunkSize, i, acc) ==
  IF i < Len(array)
    THEN chunkLoop(array, chunkSize, i + chunkSize, Append(acc, chunkAt(array, i, chunkSize)))
    ELSE acc

chunkArray(array, chunkSize) == chunkLoop(array, chunkSize, 0, <<>>)

\* for (let i = 0; i < array.length; i += chunkSize): the loop ends when it is
\* not entered or i grows.
chunkLoopEnds(array, chunkSize) == ~(0 < Len(array)) \/ chunkSize > 0

\* ------------------------------------------------------------ extractPrice
\* A text is a sequence of one-character strings.
DigitChars == << "0", "1", "2", "3", "4", "5", "6", "7", "8", "9" >>
IsDigit(c) == \E d \in 1..10 : DigitChars[d] = c
DigitVal(c) == (CHOOSE d \in 1..10 : DigitChars[d] = c) - 1
\* \s, over the characters the texts are built from
IsSpace(c) == c \in { " ", "\n", "\t" }

MinOf(S) == CHOOSE x \in S : \A y \in S : x <= y
MaxOf(S) == CHOOSE x \in S : \A y \in S : x >= y

\* priceText.replace(/[\n\t]/g, '')
stripControl(t) == SelectSeq(t, LAMBDA c : c \notin { "\n", "\t" })
\* String.prototype.trim()
trim(t) ==
  LET keep == { k \in 1..Len(t) : ~IsSpace(t[k]) }
  IN  IF keep = {} THEN << >> ELSE SubSeq(t, MinOf(keep), MaxOf(keep))

\* The last position of the greedy \d+ run that starts at s (s - 1 if t[s] is no digit).
digitsEnd(t, s) ==
  LET stop == { k \in s..Len(t) : ~IsDigit(t[k]) }
  IN  IF stop = {} THEN Len(t) ELSE MinOf(stop) - 1
\* The first position at or after s that \s* stops at.
spacesEnd(t, s) ==
  LET stop == { k \in s..Len(t) : ~IsSpace(t[k]) }
  IN  IF stop = {} THEN Len(t) + 1 ELSE MinOf(stop)

RECURSIVE digitsValue(_, _, _)
digitsValue(t, s, e) == IF e < s THEN 0 ELSE digitsValue(t, s, e - 1) * 10 + DigitVal(t[e])

TwoDigitsAt(t, k) == k + 1 <= Len(t) /\ IsDigit(t[k]) /\ IsDigit(t[k + 1])

NoMatch == [found |-> FALSE, cents |-> 0]
\* The leftmost match among the start positions `starts`, valued by centsAt[p].
Leftmost(starts, centsAt) ==
  IF starts = {} THEN NoMatch ELSE [found |-> TRUE, cents |-> centsAt[MinOf(starts)]]

\* /\$(\d+\.\d{2})/ and parseFloat(match[1])
matchDollarDecimal(t) ==
  LET e(p) == digitsEnd(t, p + 1)
      ok(p) == /\ t[p] = "$"
               /\ e(p) >= p + 1
               /\ e(p) + 1 <= Len(t)
               /\ t[e(p) + 1] = "."
               /\ TwoDigitsAt(t, e(p) + 2)
      cents(p) == digitsValue(t, p + 1, e(p)) * 100 + digitsValue(t, e(p) + 2, e(p) + 3)
  IN  Leftmost({ p \in 1..Len(t) : ok(p) }, [p \in { q \in 1..Len(t) : ok(q) } |-> cents(p)])

\* /\$(\d+)/ and parseFloat(match[1])
matchDollarInteger(t) ==
  LET e(p) == digitsEnd(t, p + 1)
      ok(p) == t[p] = "$" /\ e(p) >= p + 1
      cents(p) == digitsValue(t, p + 1, e(p)) * 100
  IN  Leftmost({ p \in 1..Len(t) : ok(p) }, [p \in { q \in 1..Len(t) : ok(q) } |-> cents(p)])

\* /(\d+)\.(\d{2})/ and parseFloat(`${match[1]}.${match[2]}`)
matchBareDecimal(t) ==
  LET e(p) == digitsEnd(t, p)
      ok(p) == /\ e(p) >= p
               /\ e(p) + 1 <= Len(t)
               /\ t[e(p) + 1] = "."
               /\ TwoDigitsAt(t, e(p) + 2)
      cents(p) == digitsValue(t, p, e(p)) * 100 + digitsValue(t, e(p) + 2, e(p) + 3)
  IN  Leftmost({ p \in 1..Len(t) : ok(p) }, [p \in { q \in 1..Len(t) : ok(q) } |-> cents(p)])

\* /(\d+)\s*\.\s*(\d{2})/ and parseFloat(`${match[1]}.${match[2]}`)
matchSpacedDecimal(t) ==
  LET e(p) == digitsEnd(t, p)
      dot(p) == spacesEnd(t, e(p) + 1)
      frac(p) == spacesEnd(t, dot(p) + 1)
      ok(p) == /\ e(p) >= p
               /\ dot(p) <= Len(t)
               /\ t[dot(p)] = "."
               /\ TwoDigitsAt(t, frac(p))
      cents(p) == digitsValue(t, p, e(p)) * 100 + digitsValue(t, frac(p), frac(p) + 1)
  IN  Leftmost({ p \in 1..Len(t) : ok(p) }, [p \in { q \in 1..Len(t) : ok(q) } |-> cents(p)])

\* const patterns = [ ... ]
patterns(t) ==
  << matchDollarDecimal(t), matchDollarInteger(t), matchBareDecimal(t), matchSpacedDecimal(t) >>

\* The first pattern that matches decides, in range or not.
firstMatchPrice(ms) ==
  LET hit == { k \in 1..Len(ms) : ms[k].found }
  IN  IF hit = {} \/ ~(ms[MinOf(hit)].cents > 0 /\ ms[MinOf(hit)].cents < 5000)
        THEN 0 ELSE ms[MinOf(hit)].cents

\* for (const pattern of patterns) over the matches ms: the first pattern that
\* matches with 0 < price < 50 decides; a pattern whose leftmost match is out
\* of that range falls through to the next pattern.  0 stands for "no price".
firstPrice(ms) ==
  LET ok == { k \in 1..Len(ms) : ms[k].found /\ ms[k].cents > 0 /\ ms[k].cents < 5000 }
  IN  IF ok = {} THEN 0 ELSE ms[MinOf(ok)].cents

\* The price in cents of a text.  cleanText and the matches are bound as
\* elements of singleton sets, so that each is computed once.
extractPrice(priceText) ==
  CHOOSE price \in
    { firstPrice(ms) :
        ms \in { patterns(cleanText) : cleanText \in { trim(stripControl(priceText)) } } } : TRUE

\* Texts a price-bearing element may show.
PriceTexts ==
  { << "$", "1", ".", "2", "9" >>, << "$", "0", ".", "9", "9" >>,
    << "$", "7", "5", ".", "0", "0" >>, << "F", "r", "e", "e" >> }

\* this.extractPrice(priceText) at the call sites: extractPrice, computed once
\* for each text a page may show.
PriceOfText == [t \in PriceTexts |-> extractPrice(t)]
parsePrice(priceText) ==
  IF priceText \in DOMAIN PriceOfText THEN PriceOfText[priceText] ELSE extractPrice(priceText)

\* --------------------------------------------------------------- variables
VARIABLES
  items,        \* the caller's item list
  concurrency,  \* the concurrency argument
  maxRetries,   \* this.maxRetries, the constructor's option
  pc,           \* where searchMultipleTracks stands
  sessI,        \* the session-initialization loop counter i
  curContext,   \* the context created in the current iteration, not yet pushed (0: none)
  contexts,     \* const contexts: BrowserContext[]
  pages,        \* const pages: Page[]
  created,      \* every context browser.newContext() has returned
  closeTried,   \* the contexts context.close() was called on
  closed,       \* the contexts context.close() released
  closeI,       \* the position of the finally loop in contexts
  chunks,       \* const chunks = this.chunkArray(items, concurrency)
  chunkIndex,   \* the chunk loop counter (1-based)
  taskPage,     \* started task <<chunk, index>> -> the page it runs on
  inflight,     \* the started tasks whose promise has not settled
  settled,      \* settled task -> [kind, value]
  settleOrder,  \* the tasks of the current chunk in the order their promises settled
  taskRun,      \* settled task -> what its extraction met on the page
  reordered,    \* some joined chunk settled in another order than its promises' order
  results,      \* const results: PriceInfo[]
  waits,        \* the delays served: between chunks, or in and after searchForTrack
  completion,   \* how the try block ended: "none", "return" or "throw"
  \* the extractors and the sequential loop
  variant,      \* "withPage": searchForTrackWithPage in a chunk task; "single": searchForTrack
  exPc,         \* where the extractor, or the loop or task that called it, stands
  processed,    \* let processed: the items the sequential loop has taken
  result,       \* const result: PriceInfo, the record the extractor builds
  nResults,     \* results.length
  scanI,        \* the index i of the scan loop over results
  thrownMsg,    \* the message of the exception the extractor call ended with
  productPage,  \* what the product page shows: the price texts of the purchase modal, then the album
  resultCount,  \* the search results the first search page shows; 0 outside the result check
  searchGotos,  \* the calls of page.goto(searchUrl) made for the current item
  productGotos, \* the calls of page.goto(productUrl) made for the current item
  foundMenuButton, \* let foundMenuButton of searchForTrackWithPage: a buy option was clicked
  \* the commands of index.ts
  cmd,          \* "analyze" or "price"
  cliPc,        \* where the command's action stands
  optJson,      \* options.outputJson is set
  optCsv,       \* options.outputCsv is set
  nItems,       \* musicItems.length
  scraper,      \* let scraper: null (FALSE) or the AmazonMusicScraper (TRUE)
  initialized,  \* scraper.initialize() has returned
  browser,      \* scraper.browser: "null", "open" or "closed"
  context,      \* scraper.context
  page,         \* scraper.page
  closeCalled,  \* scraper.close() has been entered
  exitCode,     \* the status the process ended with (-1: still running)
  \* the pure functions, applied on their own
  fnPc,         \* which function is about to be applied, or has been
  titleText,    \* const title: the text of a search result
  filterItem,   \* the item the result is checked against
  titleLabel,   \* songMatch, artistMatch and isMerchandise as computed from the title
  inputText,    \* the text extractPrice is applied to
  parsedPrice,  \* what extractPrice returned, in cents
  report,       \* const report = PricingAnalyzer.analyzePricing(priceResults)
  csvRows,      \* const data of writeReportCsv: the track rows written to the CSV report
  \* the Go command-line tool (main)
  goPc,         \* the statement of main that runs next
  priceOnly,    \* *priceOnly (-price)
  csvFile,      \* *csvFile (-csv), "" when not given
  songArg,      \* *song (-song), "" when not given
  headlessFlag, \* *headless (-headless)
  outputJSON,   \* *outputJSON (-output-json), "" when not given
  outputCSV,    \* *outputCSV (-output-csv), "" when not given
  pricingArgs,  \* cmd: the command line built for the pricing service
  nodeModules,  \* pricing-service/node_modules exists
  configLoaded, \* loadConfig has been called
  buyerBrowser, \* buyer.Initialize has launched the purchase browser
  loginCalls,   \* the calls of buyer.Login
  buyCalls,     \* the calls of buyer.SearchAndBuy
  pricingRuns,  \* the runs of the pricing service (pricingCmd.Run)
  goExit,       \* the status main ended with (-1: still running)
  \* CsvHandler.readMusicCsv
  readPc,       \* where readMusicCsv and its caller stand
  csvHeaders,   \* the column names of the file's header line
  fileRows,     \* the rows the parser has emitted so far ('data' events)
  musicItems    \* const items: MusicItem[] = []

schedVars == << items, concurrency, maxRetries, pc, sessI, curContext, contexts, pages, created,
                closeTried, closed, closeI, chunks, chunkIndex, taskPage, inflight,
                settled, settleOrder, taskRun, reordered, results, waits,
                completion >>

exVars == << variant, exPc, processed, result, nResults, scanI, thrownMsg, productPage, resultCount,
            searchGotos, productGotos, foundMenuButton >>

cliVars == << cmd, cliPc, optJson, optCsv, nItems, scraper, initialized, browser, context,
             page, closeCalled, exitCode >>

\* What the batch scheduler leaves alone, and what the extractors leave alone.
pureVars == << fnPc, titleText, filterItem, titleLabel, inputText, parsedPrice, report, csvRows >>
goFlags == << priceOnly, csvFile, songArg, headlessFlag, outputJSON, outputCSV >>
goVars == << goPc, goFlags, pricingArgs, nodeModules, configLoaded, buyerBrowser, loginCalls,
             buyCalls, pricingRuns, goExit >>
readVars == << readPc, csvHeaders, fileRows, musicItems >>

offSched == << exVars, cliVars, pureVars, goVars, readVars >>
schedRest == << concurrency, maxRetries, pc, sessI, curContext, contexts, pages, created, closeTried,
                closed, closeI, chunks, chunkIndex, taskPage, inflight, settled, settleOrder,
                taskRun, reordered, completion >>
offExtract == << schedRest, cliVars, pureVars, goVars, readVars >>
offCli == << schedVars, exVars, pureVars, goVars, readVars >>

vars == << schedVars, exVars, cliVars, pureVars, goVars, readVars >>

\* ------------------------------------------- the extractor, seen by the scheduler
\* What one extraction met on its page, by the place searchForTrackWithPage
\* leaves from: a positive price read on the product page, no search result
\* under any selector, no price (no accepted candidate, no buy option, no
\* parseable price), or an exception thrown by a page operation inside the try.
PageRuns ==
  { [kind |-> "priced", text |-> << "$", "1", ".", "2", "9" >>, message |-> ""],
    [kind |-> "noResults", text |-> << >>, message |-> ""],
    [kind |-> "noPrice", text |-> << "$", "7", "5", ".", "0", "0" >>, message |-> ""],
    [kind |-> "fault", text |-> << >>, message |-> "page.goto: Timeout 30000ms exceeded"] }

Returned(value) == [kind |-> "return", value |-> value, message |-> ""]
Thrown(item, message) == [kind |-> "throw", value |-> InitialResult(item), message |-> message]

\* The extractor with its catch clause dropped: a fault leaves as an exception.
searchForTrackWithPageUncaught(item, run) ==
  LET base == InitialResult(item)
      price == parsePrice(run.text)
  IN  CASE run.kind = "fault" -> Thrown(item, run.message)
        [] run.kind = "noResults" ->
             Returned([base EXCEPT !.error = "No search results found with any selector pattern"])
        [] run.kind = "priced" /\ price > 0 ->
             Returned([base EXCEPT !.trackPrice = price, !.available = TRUE])
        [] OTHER -> Returned([base EXCEPT !.error = "No MP3 price found for this track"])

\* searchForTrackWithPage(item, page), by its four ways out.
searchForTrackWithPage(item, run) ==
  LET base == InitialResult(item)
      price == parsePrice(run.text)
  IN  CASE run.kind = "fault" ->
             Returned([base EXCEPT !.error = "Search failed: " \o run.message])
        [] run.kind = "noResults" ->
             Returned([base EXCEPT !.error = "No search results found with any selector pattern"])
        [] run.kind = "priced" /\ price > 0 ->
             Returned([base EXCEPT !.trackPrice = price, !.available = TRUE])
        [] OTHER -> Returned([base EXCEPT !.error = "No MP3 price found for this track"])

Fulfilled(value) == [kind |-> "fulfilled", value |-> value]
Rejected(item) == [kind |-> "rejected", value |-> InitialResult(item)]

\* The chunk task without error handling at the item boundary: a fault of the
\* extraction rejects the task's promise.
chunkTaskUnguarded(item, run) ==
  LET r == searchForTrackWithPageUncaught(item, run)
  IN  IF r.kind = "return" THEN Fulfilled(r.value) ELSE Rejected(item)

\* try { return await searchForTrackWithPage(..) } catch (error) { return the
\* fallback record }, given how the call ended.
taskPromise(item, r) ==
  IF r.kind = "return" THEN Fulfilled(r.value)
  ELSE Fulfilled(FallbackResult(item, r.message))

\* The async callback of chunk.map.
chunkTask(item, run) == taskPromise(item, searchForTrackWithPage(item, run))

\* ------------------------------------------------- searchMultipleTracks
\* The page of the wrong index: chunkIndex % pages.length.
pageIndexByChunk(c, index, npages) == (c - 1) % npages

\* The page of the next index: (index + 1) % pages.length.
pageIndexNext(c, index, npages) == (index + 1) % npages

\* const pageIndex = index % pages.length   (index is 0-based)
pageIndex(c, index, npages) == index % npages

\* A pool of `concurrency` sessions whatever the number of items.
poolSizeConcurrency(c, its) == c

\* Math.min(concurrency, items.length)
poolSize(c, its) == Min(c, Len(its))

ChunkTasks(c) == IF c \in 1..Len(chunks) THEN { <<c, k>> : k \in 1..Len(chunks[c]) } ELSE {}
Started == DOMAIN taskPage

\* Promise.race-like: the join resolves once some task of the chunk has settled.
someSettled(c) == \E t \in ChunkTasks(c) : t \in DOMAIN settled

\* Promise.all(chunkPromises) is decided once every task of the chunk has settled.
allSettled(c) == \A t \in ChunkTasks(c) : t \in DOMAIN settled

\* The values in the order the promises settled.
promiseAllBySettlement(c) ==
  LET mine == SelectSeq(settleOrder, LAMBDA t : t[1] = c /\ t \in DOMAIN settled)
  IN  [k \in 1..Len(mine) |-> settled[mine[k]].value]

\* The value of Promise.all: the values in the order of the promises (the join
\* reads no pending promise; one would show as the task's initial record).
promiseAllValues(c) ==
  [k \in 1..Len(chunks[c]) |->
     IF <<c, k>> \in DOMAIN settled THEN settled[<<c, k>>].value
     ELSE InitialResult(chunks[c][k])]

\* A delay after every chunk, the last one included.
delayAfterEveryChunk(c, nChunks) == c <= nChunks

\* if (chunkIndex < chunks.length - 1), for the 1-based chunk number c
delayDue(c, nChunks) == c < nChunks

\* results.push(chunkResults[0])
pushFirst(rs, chunkResults) == IF chunkResults = << >> THEN rs ELSE Append(rs, chunkResults[1])

\* results.push(...chunkResults)
pushAll(rs, chunkResults) == rs \o chunkResults

FnExtend(f, x, y) == [z \in DOMAIN f \cup {x} |-> IF z = x THEN y ELSE f[z]]

\* No product page: nothing of a purchase modal or of the album is shown.
NoPage == [albumTexts |-> << >>, albumTitle |-> UndefinedText, priceTexts |-> << >>]

\* The extractor variables when no extractor is modelled step by step.
\* No report has been computed.
NoReport ==
  [ totalTracks |-> 0, availableTracks |-> 0, totalCost |-> 0, optimizedCost |-> 0,
    totalSavings |-> 0, savingsPercentage |-> << 0, 1 >>, tracks |-> << >>,
    albumAnalysis |-> << >> ]

\* No pure function is being applied on its own.
NoLabel == [songMatch |-> FALSE, artistMatch |-> FALSE, isMerchandise |-> FALSE]
IdlePure ==
  /\ fnPc = "idle"
  /\ titleText = << >>
  /\ filterItem = [artist |-> << >>, song |-> << >>]
  /\ titleLabel = NoLabel
  /\ inputText = << >>
  /\ parsedPrice = 0
  /\ report = NoReport
  /\ csvRows = << >>

\* The Go tool is not running.
IdleGo ==
  /\ goPc = "idle"
  /\ priceOnly = FALSE
  /\ csvFile = ""
  /\ songArg = ""
  /\ headlessFlag = TRUE
  /\ outputJSON = ""
  /\ outputCSV = ""
  /\ pricingArgs = << >>
  /\ nodeModules = FALSE
  /\ configLoaded = FALSE
  /\ buyerBrowser = FALSE
  /\ loginCalls = 0
  /\ buyCalls = 0
  /\ pricingRuns = 0
  /\ goExit = -1

\* No CSV file is being read.
IdleRead ==
  /\ readPc = "idle"
  /\ csvHeaders = << >>
  /\ fileRows = << >>
  /\ musicItems = << >>

IdleExtract ==
  /\ variant = "withPage"
  /\ exPc = "idle"
  /\ processed = 0
  /\ result = << >>
  /\ nResults = 0
  /\ scanI = 0
  /\ thrownMsg = ""
  /\ productPage = NoPage
  /\ resultCount = 0
  /\ searchGotos = 0
  /\ productGotos = 0
  /\ foundMenuButton = FALSE

\* The command variables when no command is running.
IdleCli ==
  /\ cmd = "none"
  /\ cliPc = "idle"
  /\ optJson = FALSE
  /\ optCsv = FALSE
  /\ nItems = 0
  /\ scraper = FALSE
  /\ initialized = FALSE
  /\ browser = "null"
  /\ context = "null"
  /\ page = "null"
  /\ closeCalled = FALSE
  /\ exitCode = -1

InitSched ==
  /\ items \in SeqsUpTo(ItemPool, MaxItems)
  /\ concurrency \in 1..MaxConc
  /\ maxRetries \in RetryOptions
  /\ pc = "initSessions"
  /\ sessI = 0
  /\ curContext = 0
  /\ contexts = << >>
  /\ pages = << >>
  /\ created = {}
  /\ closeTried = {}
  /\ closed = {}
  /\ closeI = 0
  /\ chunks = << >>
  /\ chunkIndex = 0
  /\ taskPage = << >>
  /\ inflight = {}
  /\ settled = << >>
  /\ settleOrder = << >>
  /\ taskRun = << >>
  /\ reordered = FALSE
  /\ results = << >>
  /\ waits = 0
  /\ completion = "none"
  /\ IdleExtract
  /\ IdleCli
  /\ IdlePure
  /\ IdleGo
  /\ IdleRead

\* An exception inside the try block: control passes to the finally block.
ThrowToFinally ==
  /\ pc' = "finally"
  /\ completion' = "throw"
  /\ closeI' = 0

\* const context = await this.browser!.newContext(...)
NewContext ==
  /\ pc = "initSessions"
  /\ sessI < poolSize(concurrency, items)
  /\ \/ /\ curContext' = sessI + 1
        /\ created' = created \cup {sessI + 1}
        /\ pc' = "newPage"
        /\ UNCHANGED << completion, closeI >>
     \/ /\ ThrowToFinally
        /\ UNCHANGED << curContext, created >>
  /\ UNCHANGED << offSched, items, concurrency, maxRetries, sessI, contexts, pages, closeTried, closed, chunks,
                  chunkIndex, taskPage, inflight, settled, settleOrder, taskRun, reordered, results, waits >>

\* const page = await context.newPage()
NewPage ==
  /\ pc = "newPage"
  /\ \/ /\ pc' = "route"
        /\ UNCHANGED << completion, closeI >>
     \/ ThrowToFinally
  /\ UNCHANGED << offSched, items, concurrency, maxRetries, sessI, curContext, contexts, pages, created, closeTried,
                  closed, chunks, chunkIndex, taskPage, inflight, settled, settleOrder, taskRun, reordered,
                  results, waits >>

\* await page.route(...); contexts.push(context); pages.push(page); i++
RoutePage ==
  /\ pc = "route"
  /\ \/ /\ contexts' = Append(contexts, curContext)
        /\ pages' = Append(pages, curContext)
        /\ sessI' = sessI + 1
        /\ curContext' = 0
        /\ pc' = "initSessions"
        /\ UNCHANGED << completion, closeI >>
     \/ /\ ThrowToFinally
        /\ UNCHANGED << contexts, pages, sessI, curContext >>
  /\ UNCHANGED << offSched, items, concurrency, maxRetries, created, closeTried, closed, chunks, chunkIndex,
                  taskPage, inflight, settled, settleOrder, taskRun, reordered, results, waits >>

\* const results = []; const chunks = this.chunkArray(items, concurrency)
BuildChunks ==
  /\ pc = "initSessions"
  /\ ~(sessI < poolSize(concurrency, items))
  /\ chunkLoopEnds(items, concurrency)
  /\ chunks' = chunkArray(items, concurrency)
  /\ results' = << >>
  /\ chunkIndex' = 1
  /\ pc' = "chunkLoop"
  /\ UNCHANGED << offSched, items, concurrency, maxRetries, sessI, curContext, contexts, pages, created, closeTried,
                  closed, closeI, taskPage, inflight, settled, settleOrder, taskRun, reordered, waits, completion >>

\* chunk.map(async (item, index) => ...): every callback runs up to its first
\* await, the navigation inside searchForTrackWithPage, so the extractions of
\* the chunk all start here, each on pages[pageIndex].
StartChunk ==
  /\ pc = "chunkLoop"
  /\ chunkIndex <= Len(chunks)
  /\ taskPage' = [t \in Started \cup ChunkTasks(chunkIndex) |->
                    IF t \in ChunkTasks(chunkIndex)
                      THEN pages[pageIndex(chunkIndex, t[2] - 1, Len(pages)) + 1]
                      ELSE taskPage[t]]
  /\ inflight' = inflight \cup ChunkTasks(chunkIndex)
  /\ pc' = "join"
  /\ UNCHANGED << offSched, items, concurrency, maxRetries, sessI, curContext, contexts, pages, created, closeTried,
                  closed, closeI, chunks, chunkIndex, settled, settleOrder, taskRun, reordered, results, waits,
                  completion >>

\* A Failure leaves its task in flight, to be extracted again, while retries are allowed.
settleUnlessRetry(fl, t, value, retries) ==
  IF ~value.available /\ retries > 0 THEN fl ELSE fl \ {t}

\* return result / return { .. error .. }: the task's promise settles with
\* whatever observation the extraction gave; this.maxRetries is not read.
settleTask(fl, t, value, retries) == fl \ {t}

\* One extraction comes to its end and its task's promise settles.
TaskSettle ==
  /\ \E t \in inflight, run \in PageRuns :
       /\ settled' = FnExtend(settled, t, chunkTask(chunks[t[1]][t[2]], run))
       /\ settleOrder' = Append(settleOrder, t)
       /\ taskRun' = FnExtend(taskRun, t, run)
       /\ inflight' = settleTask(inflight, t, chunkTask(chunks[t[1]][t[2]], run).value, maxRetries)
  /\ UNCHANGED << offSched, reordered, items, concurrency, maxRetries, pc, sessI, curContext, contexts, pages, created,
                  closeTried, closed, closeI, chunks, chunkIndex, taskPage, results, waits,
                  completion >>

\* const chunkResults = await Promise.all(chunkPromises); results.push(...chunkResults);
\* then the test chunkIndex < chunks.length - 1.
JoinChunk ==
  /\ pc = "join"
  /\ allSettled(chunkIndex)
  /\ IF \E t \in ChunkTasks(chunkIndex) : t \in DOMAIN settled /\ settled[t].kind = "rejected"
       THEN /\ ThrowToFinally
            /\ UNCHANGED << results, chunkIndex >>
       ELSE /\ results' = pushAll(results, promiseAllValues(chunkIndex))
            /\ IF delayDue(chunkIndex, Len(chunks))
                 THEN pc' = "delay" /\ UNCHANGED chunkIndex
                 ELSE pc' = "chunkLoop" /\ chunkIndex' = chunkIndex + 1
            /\ UNCHANGED << completion, closeI >>
  /\ settleOrder' = << >>
  /\ reordered' = (reordered \/ settleOrder # [k \in 1..Len(settleOrder) |-> <<chunkIndex, k>>])
  /\ UNCHANGED << offSched, items, concurrency, maxRetries, sessI, curContext, contexts, pages, created, closeTried,
                  closed, chunks, taskPage, inflight, settled, taskRun, waits >>

\* await new Promise(resolve => setTimeout(resolve, this.delay))
ChunkDelay ==
  /\ pc = "delay"
  /\ waits' = waits + 1
  /\ chunkIndex' = chunkIndex + 1
  /\ pc' = "chunkLoop"
  /\ UNCHANGED << offSched, items, concurrency, maxRetries, sessI, curContext, contexts, pages, created, closeTried,
                  closed, closeI, chunks, taskPage, inflight, settled, settleOrder, taskRun, reordered, results,
                  completion >>

\* return results
ReturnResults ==
  /\ pc = "chunkLoop"
  /\ ~(chunkIndex <= Len(chunks))
  /\ pc' = "finally"
  /\ completion' = "return"
  /\ closeI' = 0
  /\ UNCHANGED << offSched, items, concurrency, maxRetries, sessI, curContext, contexts, pages, created, closeTried,
                  closed, chunks, chunkIndex, taskPage, inflight, settled, settleOrder, taskRun, reordered,
                  results, waits >>

\* finally: for (const context of contexts) { try { await context.close() } catch {} }
CloseContext ==
  /\ pc = "finally"
  /\ closeI < Len(contexts)
  /\ closeI' = closeI + 1
  /\ closeTried' = closeTried \cup {contexts[closeI + 1]}
  /\ \/ closed' = closed \cup {contexts[closeI + 1]}
     \/ UNCHANGED closed
  /\ UNCHANGED << offSched, items, concurrency, maxRetries, pc, sessI, curContext, contexts, pages, created, chunks,
                  chunkIndex, taskPage, inflight, settled, settleOrder, taskRun, reordered, results, waits,
                  completion >>

\* The finally block is through: the call returns results or rethrows.
Finish ==
  /\ pc = "finally"
  /\ ~(closeI < Len(contexts))
  /\ pc' = IF completion = "return" THEN "returned" ELSE "thrown"
  /\ UNCHANGED << offSched, items, concurrency, maxRetries, sessI, curContext, contexts, pages, created, closeTried,
                  closed, closeI, chunks, chunkIndex, taskPage, inflight, settled,
                  settleOrder, taskRun, reordered, results, waits, completion >>

Next ==
  \/ NewContext \/ NewPage \/ RoutePage \/ BuildChunks \/ StartChunk \/ TaskSettle
  \/ JoinChunk \/ ChunkDelay \/ ReturnResults \/ CloseContext \/ Finish

Spec == InitSched /\ [][Next]_vars

\* ------------------------------- searchMultipleTracks for every concurrency
\* The call with any integer as concurrency, every step taken eventually.
\* The concurrency handed to the scheduler goes down to -MaxNegConc; a loop of
\* chunkArray that does not end is followed for MaxChunkPushes chunks.
MaxNegConc == 1
MaxChunkPushes == 3

InitLive ==
  /\ items \in SeqsUpTo(ItemPool, MaxItems)
  /\ concurrency \in (0 - MaxNegConc)..MaxConc
  /\ maxRetries = DefaultMaxRetries
  /\ pc = "initSessions"
  /\ sessI = 0
  /\ curContext = 0
  /\ contexts = << >>
  /\ pages = << >>
  /\ created = {}
  /\ closeTried = {}
  /\ closed = {}
  /\ closeI = 0
  /\ chunks = << >>
  /\ chunkIndex = 0
  /\ taskPage = << >>
  /\ inflight = {}
  /\ settled = << >>
  /\ settleOrder = << >>
  /\ taskRun = << >>
  /\ reordered = FALSE
  /\ results = << >>
  /\ waits = 0
  /\ completion = "none"
  /\ IdleExtract
  /\ IdleCli
  /\ IdlePure
  /\ IdleGo
  /\ IdleRead

\* const chunks = this.chunkArray(items, concurrency), entered with a
\* chunkSize for which `i += chunkSize` does not move i forward.
EnterChunkArray ==
  /\ pc = "initSessions"
  /\ ~(sessI < poolSize(concurrency, items))
  /\ ~chunkLoopEnds(items, concurrency)
  /\ chunks' = << >>
  /\ pc' = "chunkArray"
  /\ UNCHANGED << offSched, items, concurrency, maxRetries, sessI, curContext, contexts, pages, created, closeTried,
                  closed, closeI, chunkIndex, taskPage, inflight, settled, settleOrder, taskRun, reordered,
                  results, waits, completion >>

\* chunks.push(array.slice(i, i + chunkSize)); i += chunkSize, where i is
\* chunkSize times the number of chunks pushed so far.
ChunkArrayPush ==
  /\ pc = "chunkArray"
  /\ Len(chunks) < MaxChunkPushes
  /\ Len(chunks) * concurrency < Len(items)
  /\ chunks' = Append(chunks, chunkAt(items, Len(chunks) * concurrency, concurrency))
  /\ UNCHANGED << offSched, items, concurrency, maxRetries, pc, sessI, curContext, contexts, pages, created,
                  closeTried, closed, closeI, chunkIndex, taskPage, inflight, settled, settleOrder,
                  taskRun, reordered, results, waits, completion >>

\* The array of chunks cannot grow for ever: the process runs out of memory
\* and dies, or push throws a RangeError, which the finally block sees.
ChunkArrayExhaust ==
  /\ pc = "chunkArray"
  /\ ~(Len(chunks) < MaxChunkPushes)
  /\ \/ pc' = "outOfMemory" /\ UNCHANGED << completion, closeI >>
     \/ ThrowToFinally
  /\ UNCHANGED << offSched, items, concurrency, maxRetries, sessI, curContext, contexts, pages, created,
                  closeTried, closed, chunks, chunkIndex, taskPage, inflight, settled, settleOrder,
                  taskRun, reordered, results, waits >>

NextLive ==
  \/ Next
  \/ EnterChunkArray \/ ChunkArrayPush \/ ChunkArrayExhaust

\* Every operation that can be taken is taken eventually: the session
\* operations, the settling of each extraction, the joins and the delays.
SpecLive == InitLive /\ [][NextLive]_vars /\ WF_vars(NextLive)

\* ------------------------------------------------- chunkArray on its own
\* chunkArray applied to an array and a chunk size drawn from the bounded inputs.
InitChunk ==
  /\ items \in SeqsUpTo(ItemPool, MaxArrayLen)
  /\ concurrency \in 1..MaxChunkSize
  /\ maxRetries = DefaultMaxRetries
  /\ pc = "chunkArray"
  /\ sessI = 0
  /\ curContext = 0
  /\ contexts = << >>
  /\ pages = << >>
  /\ created = {}
  /\ closeTried = {}
  /\ closed = {}
  /\ closeI = 0
  /\ chunks = << >>
  /\ chunkIndex = 0
  /\ taskPage = << >>
  /\ inflight = {}
  /\ settled = << >>
  /\ settleOrder = << >>
  /\ taskRun = << >>
  /\ reordered = FALSE
  /\ results = << >>
  /\ waits = 0
  /\ completion = "none"
  /\ IdleExtract
  /\ IdleCli
  /\ IdlePure
  /\ IdleGo
  /\ IdleRead

ApplyChunkArray ==
  /\ pc = "chunkArray"
  /\ chunks' = chunkArray(items, concurrency)
  /\ pc' = "chunked"
  /\ UNCHANGED << offSched, items, concurrency, maxRetries, sessI, curContext, contexts, pages, created, closeTried,
                  closed, closeI, chunkIndex, taskPage, inflight, settled, settleOrder,
                  taskRun, reordered, results, waits, completion >>

NextChunk == ApplyChunkArray

SpecChunk == InitChunk /\ [][NextChunk]_vars

\* ----------------------------------------- the extractors, step by step
\* for (let i = 0; i < Math.min(results.length, 3); i++)
ScanLimitWithPage == 3
\* for (let i = 0; i < Math.min(results.length, 5); i++)
ScanLimitSingle == 5
\* if (resultCount < 3)
GoodResultCount == 3
\* const albumSelectors = [ .. ]: two selectors
NumAlbumSelectors == 2

\* What a page operation throws: an Error with a message, or something else.
Faults ==
  { [isError |-> TRUE, message |-> "page.goto: Timeout 30000ms exceeded"],
    [isError |-> TRUE, message |-> ""],
    [isError |-> FALSE, message |-> ""] }
\* error instanceof Error ? error.message : 'Unknown error'
errorText(f) == IF f.isError THEN f.message ELSE "Unknown error"

\* Texts #productTitle may show.
AlbumTitles == { << " ", "A", " " >>, << " " >>, << >> }

\* What the title of a search result says about the item: songMatch,
\* artistMatch and isMerchandise as the scan computes them.
Labels == [songMatch : BOOLEAN, artistMatch : BOOLEAN, isMerchandise : BOOLEAN]
\* the negation of: if ((!songMatch && !artistMatch) || isMerchandise) continue
acceptable(label) == ~((~label.songMatch /\ ~label.artistMatch) \/ label.isMerchandise)

\* A price of zero counts as found.
priceFoundNonNegative(price) == price >= 0

\* if (price > 0)
priceFound(price) == price > 0

\* The cascade without its break: the last text with a price found decides.
cascadePriceLast(texts) ==
  LET hits == { k \in 1..Len(texts) : priceFound(parsePrice(texts[k])) }
  IN  IF hits = {} THEN [found |-> FALSE, price |-> 0]
      ELSE [found |-> TRUE, price |-> parsePrice(texts[MaxOf(hits)])]

\* The cascade over the price elements that are visible, in selector order:
\* the first text whose parsed price is found decides.
cascadePrice(texts) ==
  LET hits == { k \in 1..Len(texts) : priceFound(parsePrice(texts[k])) }
  IN  IF hits = {} THEN [found |-> FALSE, price |-> 0]
      ELSE [found |-> TRUE, price |-> parsePrice(texts[MinOf(hits)])]

\* The album-price loop has no break: the last visible text with a positive price stays.
albumPriceOf(texts, before) ==
  LET hits == { k \in 1..Len(texts) : parsePrice(texts[k]) > 0 }
  IN  IF hits = {} THEN before ELSE parsePrice(texts[MaxOf(hits)])

\* The album name is written whatever the title lookup gave.
albumNameUnguarded(albumTitle, before) ==
  IF albumTitle = UndefinedText THEN << >> ELSE trim(albumTitle)

\* if (albumTitle) result.albumName = albumTitle.trim()
albumNameOf(albumTitle, before) ==
  IF albumTitle # UndefinedText /\ albumTitle # << >> THEN trim(albumTitle) ELSE before

\* Texts an album-price element may show.
AlbumPriceTexts ==
  { << "$", "9", ".", "4", "9" >>, << "$", "7", ".", "9", "9" >>, << "F", "r", "e", "e" >> }

\* What a product page may show under the album-price selectors that are
\* visible, in selector order, and under #productTitle (UndefinedText: nothing).
ProductPages ==
  [albumTexts : SeqsUpTo(AlbumPriceTexts, NumAlbumSelectors),
   albumTitle : AlbumTitles \cup { UndefinedText },
   priceTexts : { << >> }]

\* What the purchase modal may show under the price selectors that are
\* visible, in selector order.
ModalPages == { [NoPage EXCEPT !.priceTexts = texts] : texts \in SeqsUpTo(PriceTexts, MaxPriceTexts) }

\* The scan goes on with the next result when the product page gave no price.
afterNoPriceScan(v) == "scan"

\* else { break }: no price on the product page ends the scan.
afterNoPrice(v) == "afterLoop"

\* if (priceFound): searchForTrack looks the album up, searchForTrackWithPage returns.
afterPrice(v) == IF v = "single" THEN "album" ELSE "returned"

scanLimit(v) == IF v = "withPage" THEN ScanLimitWithPage ELSE ScanLimitSingle
\* Where the call goes once the try block is through.
afterTry(v) == IF v = "single" THEN "rateLimit" ELSE "returned"
afterCount(v) == IF v = "single" THEN "debug" ELSE "locate"

\* The alternative search is tried whatever the count.
refineAlways(n) == TRUE

\* if (resultCount < 3)
refineDue(n) == n < GoodResultCount

IdleSchedRest ==
  /\ concurrency = 1
  /\ maxRetries = DefaultMaxRetries
  /\ pc = "idle"
  /\ sessI = 0
  /\ curContext = 0
  /\ contexts = << >>
  /\ pages = << >>
  /\ created = {}
  /\ closeTried = {}
  /\ closed = {}
  /\ closeI = 0
  /\ chunks = << >>
  /\ chunkIndex = 0
  /\ taskPage = << >>
  /\ inflight = {}
  /\ settled = << >>
  /\ settleOrder = << >>
  /\ taskRun = << >>
  /\ reordered = FALSE
  /\ waits = 0
  /\ completion = "none"

\* The item list of length n the sequential loop is run on: the pool's items in turn.
SeqItems(n) ==
  [k \in 1..n |-> IF k % 2 = 1
                    THEN [artist |-> "Queen", song |-> "Bohemian Rhapsody",
                          album |-> "A Night at the Opera"]
                    ELSE [artist |-> "Adele", song |-> "Hello", album |-> ""]]

\* One item in a chunk task (searchForTrackWithPage), or an item list in the
\* sequential loop (searchForTrack) on an initialized scraper.
InitExtract ==
  /\ variant \in { "withPage", "single" }
  /\ items \in IF variant = "withPage" THEN { << item >> : item \in ItemPool }
               ELSE { SeqItems(n) : n \in 1..MaxSeqItems }
  /\ exPc = IF variant = "withPage" THEN "taskStart" ELSE "seqLoop"
  /\ processed = 0
  /\ result = << >>
  /\ nResults = 0
  /\ scanI = 0
  /\ thrownMsg = ""
  /\ productPage = NoPage
  /\ resultCount = 0
  /\ searchGotos = 0
  /\ productGotos = 0
  /\ foundMenuButton = FALSE
  /\ results = << >>
  /\ IdleSchedRest
  /\ IdleCli
  /\ IdlePure
  /\ IdleGo
  /\ IdleRead

\* The scan loop is left: its locals (results, i) are dead.
LeaveScan == nResults' = 0 /\ scanI' = 0

\* catch (error) { result.error = `Search failed: ${..}` }
ExCatch(f) ==
  /\ result' = [result EXCEPT !.error = "Search failed: " \o errorText(f)]
  /\ exPc' = afterTry(variant)
  /\ LeaveScan

\* for (const item of items) { processed++; .. await this.searchForTrack(item)
SeqNext ==
  /\ exPc = "seqLoop"
  /\ processed < Len(items)
  /\ processed' = processed + 1
  /\ result' = InitialResult(items[processed + 1])
  /\ nResults' = 0
  /\ scanI' = 0
  /\ exPc' = "gotoSearch"
  /\ UNCHANGED << offExtract, productPage, resultCount, waits, items, results, variant, thrownMsg >>
  /\ searchGotos' = 0
  /\ productGotos' = 0
  /\ foundMenuButton' = FALSE

\* results.push(result); if (processed < items.length) ..
SeqPush ==
  /\ variant = "single"
  /\ exPc = "returned"
  /\ results' = Append(results, result)
  /\ exPc' = IF processed < Len(items) THEN "seqDelay" ELSE "seqLoop"
  /\ productPage' = NoPage
  /\ UNCHANGED resultCount
  /\ UNCHANGED << offExtract, waits, items, variant, processed, result, nResults, scanI, thrownMsg >>
  /\ searchGotos' = 0
  /\ productGotos' = 0
  /\ foundMenuButton' = FALSE

\* await this.page?.waitForTimeout(this.delay), outside any try
SeqDelay ==
  /\ exPc = "seqDelay"
  /\ \/ exPc' = "seqLoop" /\ waits' = waits + 1 /\ UNCHANGED thrownMsg
     \/ \E f \in Faults : exPc' = "seqThrown" /\ thrownMsg' = errorText(f) /\ UNCHANGED waits
  /\ UNCHANGED << offExtract, productPage, resultCount, items, results, variant, processed, result, nResults, scanI >>
  /\ UNCHANGED << searchGotos, productGotos >>
  /\ UNCHANGED foundMenuButton

\* searchForTrack threw: the loop has no try, the exception leaves the loop
\* and `results` with it.
SeqAbort ==
  /\ variant = "single"
  /\ exPc = "thrown"
  /\ exPc' = "seqThrown"
  /\ UNCHANGED << offExtract, productPage, resultCount, waits, items, results, variant, processed, result, nResults, scanI,
                  thrownMsg >>
  /\ searchGotos' = 0
  /\ productGotos' = 0
  /\ UNCHANGED foundMenuButton

\* return results
SeqReturn ==
  /\ exPc = "seqLoop"
  /\ ~(processed < Len(items))
  /\ exPc' = "seqReturned"
  /\ UNCHANGED << offExtract, productPage, resultCount, waits, items, results, variant, processed, result, nResults, scanI,
                  thrownMsg >>
  /\ UNCHANGED << searchGotos, productGotos >>
  /\ UNCHANGED foundMenuButton

\* The chunk task calls searchForTrackWithPage(item, page).
TaskStart ==
  /\ exPc = "taskStart"
  /\ processed' = 1
  /\ result' = InitialResult(items[1])
  /\ exPc' = "gotoSearch"
  /\ UNCHANGED << offExtract, productPage, resultCount, waits, items, results, variant, nResults, scanI, thrownMsg >>
  /\ searchGotos' = 0
  /\ productGotos' = 0
  /\ foundMenuButton' = FALSE

\* The chunk task's try/catch around the call: its promise settles.
TaskEnd ==
  /\ variant = "withPage"
  /\ exPc \in { "returned", "thrown" }
  /\ results' = << taskPromise(items[1],
                               IF exPc = "returned" THEN Returned(result)
                               ELSE Thrown(items[1], thrownMsg)).value >>
  /\ exPc' = "taskSettled"
  /\ productPage' = NoPage
  /\ UNCHANGED resultCount
  /\ UNCHANGED << offExtract, waits, items, variant, processed, result, nResults, scanI, thrownMsg >>
  /\ searchGotos' = 0
  /\ productGotos' = 0
  /\ foundMenuButton' = FALSE

\* await page.goto(searchUrl, ..); await page.waitForTimeout(..): the first
\* search page shows resultCount elements of the search-result selector.
ExGotoSearch ==
  /\ exPc = "gotoSearch"
  /\ \/ /\ exPc' = "count"
        /\ resultCount' \in 0..MaxResults
        /\ UNCHANGED << result, nResults, scanI >>
     \/ /\ \E f \in Faults : ExCatch(f)
        /\ UNCHANGED resultCount
  /\ UNCHANGED << offExtract, productPage, waits, items, results, variant, processed, thrownMsg >>
  /\ searchGotos' = searchGotos + 1
  /\ UNCHANGED productGotos
  /\ UNCHANGED foundMenuButton

\* const resultCount = await ..count() inside an inner try whose catch
\* continues with the current page.
ExCount ==
  /\ exPc = "count"
  /\ \/ exPc' = "counted" /\ UNCHANGED resultCount
     \/ exPc' = afterCount(variant) /\ resultCount' = 0
  /\ UNCHANGED << offExtract, productPage, waits, items, results, variant, processed, result, nResults, scanI,
                  thrownMsg >>
  /\ UNCHANGED << searchGotos, productGotos >>
  /\ UNCHANGED foundMenuButton

\* if (resultCount < 3) { .. } else { hasGoodResults = true }
ExCounted ==
  /\ exPc = "counted"
  /\ IF refineDue(resultCount)
       THEN exPc' = "refine" /\ UNCHANGED resultCount
       ELSE exPc' = afterCount(variant) /\ resultCount' = 0
  /\ UNCHANGED << offExtract, productPage, waits, items, results, variant, processed, result, nResults, scanI,
                  thrownMsg >>
  /\ UNCHANGED << searchGotos, productGotos >>
  /\ UNCHANGED foundMenuButton

\* The second search navigation, with `${item.artist} ${item.song}`; a fault in
\* it is swallowed by the inner catch.
ExRefine ==
  /\ exPc = "refine"
  /\ exPc' = afterCount(variant)
  /\ resultCount' = 0
  /\ UNCHANGED << offExtract, productPage, waits, items, results, variant, processed, result, nResults, scanI,
                  thrownMsg >>
  /\ searchGotos' = searchGotos + 1
  /\ UNCHANGED productGotos
  /\ UNCHANGED foundMenuButton

\* searchForTrack only: await this.page.screenshot(..); await this.page.title()
ExDebug ==
  /\ exPc = "debug"
  /\ \/ exPc' = "locate" /\ UNCHANGED << result, nResults, scanI >>
     \/ \E f \in Faults : ExCatch(f)
  /\ UNCHANGED << offExtract, productPage, resultCount, waits, items, results, variant, processed, thrownMsg >>
  /\ UNCHANGED << searchGotos, productGotos >>
  /\ UNCHANGED foundMenuButton

\* The result selectors: the first that finds elements gives `results`; with
\* none the call returns at once with the "No search results" error.
ExLocate ==
  /\ exPc = "locate"
  /\ \/ \E n \in 0..MaxResults :
          IF n = 0
            THEN /\ result' = [result EXCEPT
                                 !.error = "No search results found with any selector pattern"]
                 /\ exPc' = "returned"
                 /\ LeaveScan
            ELSE /\ exPc' = "scan"
                 /\ nResults' = n
                 /\ scanI' = 0
                 /\ UNCHANGED result
     \/ \E f \in Faults : ExCatch(f)
  /\ UNCHANGED << offExtract, productPage, resultCount, waits, items, results, variant, processed, thrownMsg >>
  /\ UNCHANGED << searchGotos, productGotos >>
  /\ UNCHANGED foundMenuButton

\* One round of the scan loop up to the filter: the title cascade (its
\* fallback, resultElement.textContent(), is outside the inner try), then
\* songMatch, artistMatch, isMerchandise.
ExScanTitle ==
  /\ exPc = "scan"
  /\ scanI < Min(nResults, scanLimit(variant))
  /\ \/ \E label \in Labels :
          /\ IF acceptable(label)
               THEN exPc' = "link" /\ UNCHANGED scanI
               ELSE exPc' = "scan" /\ scanI' = scanI + 1
          /\ UNCHANGED << result, nResults >>
     \/ \E f \in Faults : ExCatch(f)
  /\ UNCHANGED << offExtract, productPage, resultCount, waits, items, results, variant, processed, thrownMsg >>
  /\ UNCHANGED << searchGotos, productGotos >>
  /\ UNCHANGED foundMenuButton

\* The scan loop has run out of results.
ExScanEnd ==
  /\ exPc = "scan"
  /\ ~(scanI < Min(nResults, scanLimit(variant)))
  /\ exPc' = "afterLoop"
  /\ LeaveScan
  /\ UNCHANGED << offExtract, productPage, resultCount, waits, items, results, variant, processed, result, thrownMsg >>
  /\ UNCHANGED << searchGotos, productGotos >>
  /\ UNCHANGED foundMenuButton

\* The link cascade: if (!href) continue
ExLink ==
  /\ exPc = "link"
  /\ \/ exPc' = "gotoProduct" /\ UNCHANGED scanI
     \/ exPc' = "scan" /\ scanI' = scanI + 1
  /\ UNCHANGED << offExtract, productPage, resultCount, waits, items, results, variant, processed, result, nResults, thrownMsg >>
  /\ UNCHANGED << searchGotos, productGotos >>
  /\ UNCHANGED foundMenuButton

\* await page.goto(productUrl); await page.waitForTimeout(1000)
ExGotoProduct ==
  /\ exPc = "gotoProduct"
  /\ \/ exPc' = "menu" /\ UNCHANGED << result, nResults, scanI >>
     \/ \E f \in Faults : ExCatch(f)
  /\ UNCHANGED << offExtract, productPage, resultCount, waits, items, results, variant, processed, thrownMsg >>
  /\ productGotos' = productGotos + 1
  /\ UNCHANGED searchGotos
  /\ UNCHANGED foundMenuButton

\* The price cascade is tried whether or not a buy option was clicked.
afterMenuPrice(found, v) == "price"

\* if (!foundMenuButton) break, in searchForTrackWithPage only
afterMenu(found, v) == IF ~found /\ v = "withPage" THEN "afterLoop" ELSE "price"

\* The menu-button and buy-option cascades (every fault inside is swallowed);
\* searchForTrackWithPage breaks out of the scan when no buy option was
\* clicked, searchForTrack goes on to the price cascade.  Either way no later
\* search result is looked at; productPage is what the price selectors will show.
\* searchForTrack reads its foundMenuButton only to log it (602-604): it is not
\* kept for that variant.
ExMenu ==
  /\ exPc = "menu"
  /\ \E found \in BOOLEAN :
       /\ foundMenuButton' = (found /\ variant = "withPage")
       /\ exPc' = afterMenu(found, variant)
       /\ IF exPc' = "price" THEN productPage' \in ModalPages ELSE UNCHANGED productPage
  /\ LeaveScan
  /\ UNCHANGED << offExtract, resultCount, waits, items, results, variant, processed, result, thrownMsg >>
  /\ UNCHANGED << searchGotos, productGotos >>

\* The price cascade over the modal's price selectors.
ExPrice ==
  /\ exPc = "price"
  /\ LET hit == cascadePrice(productPage.priceTexts)
     IN  IF hit.found
           THEN /\ result' = [result EXCEPT !.trackPrice = hit.price, !.available = TRUE]
                /\ exPc' = "priceFound"
                /\ UNCHANGED productPage
           ELSE /\ exPc' = afterNoPrice(variant)
                /\ productPage' = NoPage
                /\ UNCHANGED result
  /\ UNCHANGED << offExtract, resultCount, waits, items, results, variant, processed, nResults, scanI,
                  thrownMsg >>
  /\ UNCHANGED << searchGotos, productGotos >>
  /\ UNCHANGED foundMenuButton

\* if (priceFound) { .. }: from here on productPage is what the page shows
\* under the album selectors and #productTitle.
ExPriceFound ==
  /\ exPc = "priceFound"
  /\ productPage' \in ProductPages
  /\ exPc' = afterPrice(variant)
  /\ UNCHANGED << offExtract, resultCount, waits, items, results, variant, processed, result, nResults, scanI,
                  thrownMsg >>
  /\ UNCHANGED << searchGotos, productGotos >>
  /\ UNCHANGED foundMenuButton

\* searchForTrack only: the album price and the album name, every fault
\* swallowed; then `return result`.
ExAlbum ==
  /\ exPc = "album"
  /\ result' = [result EXCEPT
                  !.albumPrice = albumPriceOf(productPage.albumTexts, @),
                  !.albumName = albumNameOf(productPage.albumTitle, @)]
  /\ exPc' = "returned"
  /\ UNCHANGED << offExtract, productPage, resultCount, waits, items, results, variant, processed, nResults,
                  scanI, thrownMsg >>
  /\ UNCHANGED << searchGotos, productGotos >>
  /\ UNCHANGED foundMenuButton

\* if (!result.available) result.error = 'No MP3 price found for this track'
ExAfterLoop ==
  /\ exPc = "afterLoop"
  /\ result' = IF ~result.available
                 THEN [result EXCEPT !.error = "No MP3 price found for this track"]
                 ELSE result
  /\ exPc' = afterTry(variant)
  /\ UNCHANGED << offExtract, productPage, resultCount, waits, items, results, variant, processed, nResults, scanI, thrownMsg >>
  /\ UNCHANGED << searchGotos, productGotos >>
  /\ UNCHANGED foundMenuButton

\* searchForTrack only, after the try/catch: await this.page.waitForTimeout(this.delay);
\* return result
ExRateLimit ==
  /\ exPc = "rateLimit"
  /\ \/ exPc' = "returned" /\ waits' = waits + 1 /\ UNCHANGED thrownMsg
     \/ \E f \in Faults : exPc' = "thrown" /\ thrownMsg' = errorText(f) /\ UNCHANGED waits
  /\ UNCHANGED << offExtract, productPage, resultCount, items, results, variant, processed, result, nResults, scanI >>
  /\ UNCHANGED << searchGotos, productGotos >>
  /\ UNCHANGED foundMenuButton

NextExtract ==
  \/ SeqNext \/ SeqPush \/ SeqDelay \/ SeqAbort \/ SeqReturn \/ TaskStart \/ TaskEnd
  \/ ExGotoSearch \/ ExCount \/ ExCounted \/ ExRefine \/ ExDebug \/ ExLocate \/ ExScanTitle \/ ExScanEnd
  \/ ExLink \/ ExGotoProduct \/ ExMenu \/ ExPrice \/ ExPriceFound \/ ExAlbum \/ ExAfterLoop \/ ExRateLimit

SpecExtract == InitExtract /\ [][NextExtract]_vars

\* Every page run the scheduler's view of the extractor ranges over, with all
\* texts and messages of the step-by-step extractor.
AllPageRuns ==
  { [kind |-> k, text |-> t, message |-> errorText(f)] :
      k \in { "priced", "noResults", "noPrice", "fault" }, t \in PriceTexts, f \in Faults }

\* The steps of searchForTrackWithPage return nothing but what its four ways
\* out, as the scheduler sees them, return.
WithPageWaysOut ==
  (variant = "withPage" /\ exPc = "returned") =>
     \E run \in AllPageRuns : result = searchForTrackWithPage(items[1], run).value

\* ------------------------------------------------ the commands of index.ts
\* The analyze and price commands, statement by statement: cliPc is the
\* statement about to run, "catch" the catch block, "finally" the finally
\* block, "exited" the end of the process.  exitCode is -1 while it runs.
\* browser, context and page are the scraper's fields: "null", "open", "closed".
MaxCsvItems == 2

InitCli ==
  /\ cmd \in { "analyze", "price" }
  /\ cliPc = IF cmd = "analyze" THEN "readCsv" ELSE "newScraper"
  /\ optJson \in IF cmd = "analyze" THEN BOOLEAN ELSE { FALSE }
  /\ optCsv \in IF cmd = "analyze" THEN BOOLEAN ELSE { FALSE }
  /\ nItems = IF cmd = "analyze" THEN 0 ELSE 1
  /\ scraper = FALSE
  /\ initialized = FALSE
  /\ browser = "null"
  /\ context = "null"
  /\ page = "null"
  /\ closeCalled = FALSE
  /\ exitCode = -1
  /\ items = << >>
  /\ results = << >>
  /\ IdleSchedRest
  /\ IdleExtract
  /\ IdlePure
  /\ IdleGo
  /\ IdleRead

\* process.exit(code): the process ends here; no statement after it runs, the
\* finally block of the enclosing try included.
processExit(code) ==
  /\ cliPc' = "exited"
  /\ exitCode' = code

\* An exception inside the try block: control goes to the catch block.
CliThrow ==
  /\ cliPc' = "catch"
  /\ UNCHANGED exitCode

CliGoto(next) ==
  /\ cliPc' = next
  /\ UNCHANGED exitCode

\* An empty list is analyzed like any other.
noItemsNever(n) == FALSE

\* if (musicItems.length === 0)
noItems(n) == n = 0

\* const musicItems = await CsvHandler.readMusicCsv(options.input), and the
\* exit on an empty list.
ReadCsv ==
  /\ cliPc = "readCsv"
  /\ \/ \E n \in 0..MaxCsvItems :
          /\ nItems' = n
          /\ IF noItems(n) THEN processExit(1) ELSE CliGoto("newScraper")
     \/ CliThrow /\ UNCHANGED nItems
  /\ UNCHANGED << offCli, cmd, optJson, optCsv, scraper, initialized, browser, context, page,
                  closeCalled >>

\* scraper = new AmazonMusicScraper({...})
NewScraper ==
  /\ cliPc = "newScraper"
  /\ scraper' = TRUE
  /\ CliGoto("launch")
  /\ UNCHANGED << offCli, cmd, optJson, optCsv, nItems, initialized, browser, context, page,
                  closeCalled >>

\* initialize(): this.browser = await chromium.launch(...)
InitLaunch ==
  /\ cliPc = "launch"
  /\ \/ browser' = "open" /\ CliGoto("newContext")
     \/ CliThrow /\ UNCHANGED browser
  /\ UNCHANGED << offCli, cmd, optJson, optCsv, nItems, scraper, initialized, context, page,
                  closeCalled >>

\* initialize(): this.context = await this.browser.newContext(...)
InitNewContext ==
  /\ cliPc = "newContext"
  /\ \/ context' = "open" /\ CliGoto("newPage")
     \/ CliThrow /\ UNCHANGED context
  /\ UNCHANGED << offCli, cmd, optJson, optCsv, nItems, scraper, initialized, browser, page,
                  closeCalled >>

\* initialize(): this.page = await this.context.newPage()
InitNewPage ==
  /\ cliPc = "newPage"
  /\ \/ page' = "open" /\ CliGoto("route")
     \/ CliThrow /\ UNCHANGED page
  /\ UNCHANGED << offCli, cmd, optJson, optCsv, nItems, scraper, initialized, browser, context,
                  closeCalled >>

\* initialize(): await this.page.route(...); with it initialize() has returned.
InitRoute ==
  /\ cliPc = "route"
  /\ \/ initialized' = TRUE /\ CliGoto("search")
     \/ CliThrow /\ UNCHANGED initialized
  /\ UNCHANGED << offCli, cmd, optJson, optCsv, nItems, scraper, browser, context, page,
                  closeCalled >>

\* The observation lists searchMultipleTracks may return for n items: one
\* observation per item, each what its chunk task settled with.
PriceResults(n) ==
  { rs \in [1..n -> { chunkTask(item, run).value : item \in ItemPool, run \in PageRuns }] :
      \A k \in 1..n : \E run \in PageRuns : rs[k] = chunkTask(SeqItems(n)[k], run).value }

\* analyze: const priceResults = await scraper.searchMultipleTracks(musicItems),
\* which returns one observation per item, Failures included, or rethrows
\* what its session setup threw before any extraction.
SearchTracks ==
  /\ cliPc = "search"
  /\ cmd = "analyze"
  /\ \/ results' \in PriceResults(nItems) /\ CliGoto("report")
     \/ CliThrow /\ UNCHANGED results
  /\ UNCHANGED << exVars, pureVars, goVars, readVars, schedRest, items, waits, cmd, optJson, optCsv, nItems, scraper,
                  initialized, browser, context, page, closeCalled >>

\* price: const result = await scraper.searchForTrack(musicItem), which returns
\* an observation or throws what its rate-limit wait threw.
SearchTrack ==
  /\ cliPc = "search"
  /\ cmd = "price"
  /\ \/ CliGoto("print")
     \/ CliThrow
  /\ UNCHANGED << offCli, cmd, optJson, optCsv, nItems, scraper, initialized, browser, context,
                  page, closeCalled >>

\* analyze: analyzePricing and printSummary, then the choice of the reports.
Report ==
  /\ cliPc = "report"
  /\ CliGoto(IF optJson THEN "writeJson" ELSE IF optCsv THEN "writeCsv" ELSE "finally")
  /\ UNCHANGED << offCli, cmd, optJson, optCsv, nItems, scraper, initialized, browser, context,
                  page, closeCalled >>

\* analyze: await fs.writeFile(options.outputJson, ...)
WriteJson ==
  /\ cliPc = "writeJson"
  /\ \/ CliGoto(IF optCsv THEN "writeCsv" ELSE "finally")
     \/ CliThrow
  /\ UNCHANGED << offCli, cmd, optJson, optCsv, nItems, scraper, initialized, browser, context,
                  page, closeCalled >>

\* analyze: await CsvHandler.writeReportCsv(report, options.outputCsv)
WriteCsv ==
  /\ cliPc = "writeCsv"
  /\ \/ CliGoto("finally")
     \/ CliThrow
  /\ UNCHANGED << offCli, cmd, optJson, optCsv, nItems, scraper, initialized, browser, context,
                  page, closeCalled >>

\* price: the lines printed for the observation.
PrintPrice ==
  /\ cliPc = "print"
  /\ CliGoto("finally")
  /\ UNCHANGED << offCli, cmd, optJson, optCsv, nItems, scraper, initialized, browser, context,
                  page, closeCalled >>

\* catch (error) { console.error(...); process.exit(1); }
CliCatch ==
  /\ cliPc = "catch"
  /\ processExit(1)
  /\ UNCHANGED << offCli, cmd, optJson, optCsv, nItems, scraper, initialized, browser, context,
                  page, closeCalled >>

\* finally { if (scraper) { await scraper.close(); } }: the call of close().
CliFinally ==
  /\ cliPc = "finally"
  /\ IF scraper
       THEN closeCalled' = TRUE /\ CliGoto("closePage")
       ELSE UNCHANGED closeCalled /\ processExit(0)
  /\ UNCHANGED << offCli, cmd, optJson, optCsv, nItems, scraper, initialized, browser, context,
                  page >>

\* One statement of close(): if (handle) await handle.close().  A close that
\* rejects makes the action's promise reject: the unhandledRejection handler
\* exits with 1.
closeStep(handle, next) ==
  IF handle = "null"
    THEN CliGoto(next) /\ handle' = handle
    ELSE \/ handle' = "closed" /\ (IF next = "exited" THEN processExit(0) ELSE CliGoto(next))
         \/ handle' = handle /\ processExit(1)

ScraperClosePage ==
  /\ cliPc = "closePage"
  /\ closeStep(page, "closeContext")
  /\ UNCHANGED << offCli, cmd, optJson, optCsv, nItems, scraper, initialized, browser, context,
                  closeCalled >>

ScraperCloseContext ==
  /\ cliPc = "closeContext"
  /\ closeStep(context, "closeBrowser")
  /\ UNCHANGED << offCli, cmd, optJson, optCsv, nItems, scraper, initialized, browser, page,
                  closeCalled >>

ScraperCloseBrowser ==
  /\ cliPc = "closeBrowser"
  /\ closeStep(browser, "exited")
  /\ UNCHANGED << offCli, cmd, optJson, optCsv, nItems, scraper, initialized, context, page,
                  closeCalled >>

NextCli ==
  \/ ReadCsv \/ NewScraper \/ InitLaunch \/ InitNewContext \/ InitNewPage \/ InitRoute
  \/ SearchTracks \/ SearchTrack \/ Report \/ WriteJson \/ WriteCsv \/ PrintPrice
  \/ CliCatch \/ CliFinally \/ ScraperClosePage \/ ScraperCloseContext \/ ScraperCloseBrowser

SpecCli == InitCli /\ [][NextCli]_vars

\* ------------------------------------------------ the candidate filter on its own
\* String.prototype.toLowerCase(), over the letters the texts are built from.
UpperChars == << "A", "B", "C", "D", "E", "F", "G", "H", "I", "J", "K", "L", "M", "N", "O", "P", "Q", "R", "S", "T", "U", "V", "W", "X", "Y", "Z" >>
LowerChars == << "a", "b", "c", "d", "e", "f", "g", "h", "i", "j", "k", "l", "m", "n", "o", "p", "q", "r", "s", "t", "u", "v", "w", "x", "y", "z" >>
toLowerChar(c) ==
  IF \E k \in 1..Len(UpperChars) : UpperChars[k] = c
    THEN LowerChars[CHOOSE k \in 1..Len(UpperChars) : UpperChars[k] = c]
    ELSE c
toLowerCase(t) == [k \in 1..Len(t) |-> toLowerChar(t[k])]

\* String.prototype.includes(sub)
includes(t, sub) == \E i \in 1..(Len(t) - Len(sub) + 1) : SubSeq(t, i, i + Len(sub) - 1) = sub

\* The keywords of the isMerchandise test, in the order of the || chain.
MerchandiseKeywords ==
  << << "p", "o", "s", "t", "e", "r" >>,
     << "p", "r", "i", "n", "t" >>,
     << "w", "a", "l", "l", " ", "a", "r", "t" >>,
     << "t", "-", "s", "h", "i", "r", "t" >>,
     << "m", "u", "g" >>,
     << "v", "i", "n", "y", "l" >>,
     << "c", "d", " " >>,
     << "d", "v", "d" >>,
     << "b", "o", "o", "k" >> >>

\* The test with 'cd' in place of 'cd ': a label that ends in CD counts as merchandise.
isMerchandiseLooseCd(titleLower) ==
  \E k \in 1..Len(MerchandiseKeywords) :
    includes(titleLower, IF MerchandiseKeywords[k] = << "c", "d", " " >>
                           THEN << "c", "d" >> ELSE MerchandiseKeywords[k])

\* const isMerchandise = titleLower.includes('poster') || ... || titleLower.includes('book')
isMerchandise(titleLower) ==
  \E k \in 1..Len(MerchandiseKeywords) : includes(titleLower, MerchandiseKeywords[k])

\* const titleLower = title.toLowerCase(); const songMatch = ..; const artistMatch = ..;
\* const isMerchandise = ..
labelOf(t, item) ==
  [ songMatch |-> includes(toLowerCase(t), toLowerCase(item.song)),
    artistMatch |-> includes(toLowerCase(t), toLowerCase(item.artist)),
    isMerchandise |-> isMerchandise(toLowerCase(t)) ]

\* The items of ItemPool with their texts spelled out.
FilterItems ==
  { [artist |-> << "Q", "u", "e", "e", "n" >>,
     song |-> << "B", "o", "h", "e", "m", "i", "a", "n", " ", "R", "h", "a", "p", "s", "o", "d", "y" >>],
    [artist |-> << "A", "d", "e", "l", "e" >>, song |-> << "H", "e", "l", "l", "o" >>] }

\* The pieces the titles of search results are made of.
TitleWords ==
  { << "Q", "u", "e", "e", "n" >>,
    << "Q", "U", "E", "E", "N" >>,
    << "B", "o", "h", "e", "m", "i", "a", "n", " ", "R", "h", "a", "p", "s", "o", "d", "y" >>,
    << "Q", "u", "e", "e", "n", " ", "-", " ", "B", "o", "h", "e", "m", "i", "a", "n", " ", "R", "h", "a", "p", "s", "o", "d", "y" >>,
    << "H", "e", "l", "l", "o" >>,
    << "A", "d", "e", "l", "e" >>,
    << "P", "o", "s", "t", "e", "r" >>,
    << "A", "r", "t", " ", "P", "r", "i", "n", "t" >>,
    << "W", "a", "l", "l", " ", "A", "r", "t" >>,
    << "T", "-", "S", "h", "i", "r", "t" >>,
    << "M", "u", "g" >>,
    << "V", "i", "n", "y", "l" >>,
    << "C", "D" >>,
    << "D", "V", "D" >>,
    << "S", "o", "n", "g", "b", "o", "o", "k" >>,
    << "(", "L", "i", "v", "e", ")" >> }

MaxTitleWords == 2

\* The pieces joined with single spaces.
RECURSIVE joinWords(_)
joinWords(ws) ==
  IF ws = << >> THEN << >>
  ELSE IF Len(ws) = 1 THEN ws[1]
  ELSE ws[1] \o << " " >> \o joinWords(Tail(ws))

Titles == { joinWords(ws) : ws \in SeqsUpTo(TitleWords, MaxTitleWords) }

InitFilter ==
  /\ fnPc = "filter"
  /\ titleText \in Titles
  /\ filterItem \in FilterItems
  /\ titleLabel = NoLabel
  /\ inputText = << >>
  /\ parsedPrice = 0
  /\ report = NoReport
  /\ csvRows = << >>
  /\ items = << >>
  /\ results = << >>
  /\ waits = 0
  /\ IdleSchedRest
  /\ IdleExtract
  /\ IdleCli
  /\ IdleGo
  /\ IdleRead

\* The three tests of the scan loop on one title.
ApplyFilter ==
  /\ fnPc = "filter"
  /\ titleLabel' = labelOf(titleText, filterItem)
  /\ fnPc' = "filtered"
  /\ UNCHANGED << schedVars, exVars, cliVars, goVars, readVars, titleText, filterItem, inputText, parsedPrice, report, csvRows >>

NextFilter == ApplyFilter

SpecFilter == InitFilter /\ [][NextFilter]_vars

\* ------------------------------------------------ extractPrice on its own
\* The pieces the texts handed to extractPrice are made of.
TextPieces ==
  { << "$", "1", ".", "2", "9" >>,
    << "$", "1", "2", ".", "5", "0" >>,
    << "$", "7", "5", ".", "0", "0" >>,
    << "O", "r", "d", "e", "r", " ", "t", "o", "t", "a", "l", ":", " " >>,
    << " ", "d", "u", "e" >>,
    << "n", "o", " ", "d", "i", "g", "i", "t", "s", " ", "h", "e", "r", "e" >>,
    << "1", " ", ".", " ", "2", "9" >>,
    << "$", "5" >>,
    << "0", ".", "9", "9" >>,
    << "\n" >> }

MaxTextPieces == 3

RECURSIVE concat(_)
concat(ps) == IF ps = << >> THEN << >> ELSE Head(ps) \o concat(Tail(ps))

InputTexts == { concat(ps) : ps \in SeqsUpTo(TextPieces, MaxTextPieces) }

InitPrice ==
  /\ fnPc = "extractPrice"
  /\ inputText \in InputTexts
  /\ parsedPrice = 0
  /\ report = NoReport
  /\ csvRows = << >>
  /\ titleText = << >>
  /\ filterItem = [artist |-> << >>, song |-> << >>]
  /\ titleLabel = NoLabel
  /\ items = << >>
  /\ results = << >>
  /\ waits = 0
  /\ IdleSchedRest
  /\ IdleExtract
  /\ IdleCli
  /\ IdleGo
  /\ IdleRead

ApplyExtractPrice ==
  /\ fnPc = "extractPrice"
  /\ parsedPrice' = extractPrice(inputText)
  /\ fnPc' = "priceReturned"
  /\ UNCHANGED << schedVars, exVars, cliVars, goVars, readVars, titleText, filterItem, titleLabel, inputText, report, csvRows >>

NextPrice == ApplyExtractPrice

SpecPrice == InitPrice /\ [][NextPrice]_vars

\* ------------------------------------------------ the pricing optimizer
\* PricingAnalyzer.analyzePricing(observations), as spec.md 4.5 describes it:
\* analyzer.ts is not among the sources.  Prices are in cents.
\* The sum of f[k] over the positions ks, a sequence of indices.
RECURSIVE sumAt(_, _)
sumAt(f, ks) == IF ks = << >> THEN 0 ELSE f[Head(ks)] + sumAt(f, Tail(ks))

\* The positions of obs, in order.
positions(obs) == [k \in 1..Len(obs) |-> k]

\* Step 1: the available observations, and those that carry a positive albumPrice.
availablePositions(obs) == SelectSeq(positions(obs), LAMBDA k : obs[k].available)
inAlbumGroup(o, key) ==
  o.available /\ o.albumPrice > 0 /\ o.artist = key[1] /\ o.albumName = key[2]
groupPositions(obs, key) == SelectSeq(positions(obs), LAMBDA k : inAlbumGroup(obs[k], key))

\* The keys (artist, albumName) in the order of their first member.
groupKeys(obs) ==
  LET first == SelectSeq(positions(obs),
                 LAMBDA k : /\ obs[k].available /\ obs[k].albumPrice > 0
                            /\ \A j \in 1..(k - 1) :
                                 ~inAlbumGroup(obs[j], << obs[k].artist, obs[k].albumName >>))
  IN  [i \in 1..Len(first) |-> << obs[first[i]].artist, obs[first[i]].albumName >>]

\* A group of two members is analysed as well.
qualifiesFromTwo(n) == n >= 2

\* Step 2: a group with 3 members or more is analysed.
qualifies(n) == n >= 3

\* Step 2: the AlbumAnalysis of a group, with the group's common albumPrice.
albumAnalysisOf(obs, key) ==
  LET ms == groupPositions(obs, key)
      total == sumAt([k \in 1..Len(obs) |-> obs[k].trackPrice], ms)
      price == obs[ms[1]].albumPrice
  IN  [ albumName |-> key[2], artist |-> key[1], albumPrice |-> price,
        tracks |-> [i \in 1..Len(ms) |-> obs[ms[i]].song],
        trackCount |-> Len(ms), totalTrackPrice |-> total, savings |-> total - price,
        recommendation |-> IF total - price > 0 THEN "Buy album" ELSE "Buy individual tracks" ]

albumAnalyses(obs) ==
  LET keys == SelectSeq(groupKeys(obs), LAMBDA key : qualifies(Len(groupPositions(obs, key))))
  IN  [i \in 1..Len(keys) |-> albumAnalysisOf(obs, keys[i])]

\* Every analysed album is bought, savings or not.
buysAlbumAlways(analysis) == TRUE

\* Step 3: for every AlbumAnalysis with savings > 0
buysAlbum(analysis) == analysis.savings > 0

\* Step 3: the price of every album bought, once, and the trackPrice of every
\* available observation that no bought album covers.
optimizedCostOf(obs, analyses) ==
  LET bought == SelectSeq(analyses, buysAlbum)
      covered(o) == \E i \in 1..Len(bought) :
                      inAlbumGroup(o, << bought[i].artist, bought[i].albumName >>)
      alone == SelectSeq(positions(obs), LAMBDA k : obs[k].available /\ ~covered(obs[k]))
  IN  sumAt([i \in 1..Len(bought) |-> bought[i].albumPrice], [i \in 1..Len(bought) |-> i])
        + sumAt([k \in 1..Len(obs) |-> obs[k].trackPrice], alone)

\* totalTracks counts the available observations only.
totalTracksAvailable(obs) == Len(availablePositions(obs))

\* Step 6: totalTracks = len(observations)
totalTracksOf(obs) == Len(obs)

\* Step 6: 100 * totalSavings / totalCost if totalCost > 0 else 0, as the
\* fraction << numerator, denominator >>.
savingsPercentageOf(totalSavings, totalCost) ==
  IF totalCost > 0 THEN << 100 * totalSavings, totalCost >> ELSE << 0, 1 >>

\* Steps 4 and 6; cost and analyses are bound as elements of singleton sets,
\* so that each is computed once.
analyzePricing(obs) ==
  CHOOSE r \in
    { [ totalTracks |-> totalTracksOf(obs),
        availableTracks |-> Len(availablePositions(obs)),
        totalCost |-> totalCost,
        optimizedCost |-> optimizedCost,
        totalSavings |-> totalCost - optimizedCost,
        savingsPercentage |-> savingsPercentageOf(totalCost - optimizedCost, totalCost),
        tracks |-> obs,
        albumAnalysis |-> analyses ] :
      totalCost \in { sumAt([k \in 1..Len(obs) |-> obs[k].trackPrice], availablePositions(obs)) },
      optimizedCost \in { optimizedCostOf(obs, analyses) : analyses \in { albumAnalyses(obs) } },
      analyses \in { albumAnalyses(obs) } } : TRUE

\* The observations the lists handed to the optimizer are made of: a Failure,
\* a Success of the same song without an album (1.29), three songs on album X
\* at 2.97 (0.99, 0.99 and 1.29), one on album Y at 7.99 (0.99) and one by
\* another artist on an album named X as well.
ObservationPool ==
  LET obs(artist, song, trackPrice, albumPrice, albumName) ==
        [ InitialResult([artist |-> artist, song |-> song, album |-> ""]) EXCEPT
            !.trackPrice = trackPrice, !.available = TRUE,
            !.albumPrice = albumPrice, !.albumName = albumName ]
      X == << "X" >>
      Y == << "Y" >>
  IN  { [ InitialResult([artist |-> "Queen", song |-> "Bohemian Rhapsody", album |-> ""])
            EXCEPT !.error = "No MP3 price found for this track" ] }
      \cup { obs("Queen", "Bohemian Rhapsody", 129, 0, UndefinedText) }
      \cup { obs("Queen", "Bohemian Rhapsody", 99, 297, X) }
      \cup { obs("Queen", "Love of My Life", 99, 297, X) }
      \cup { obs("Queen", "You're My Best Friend", 129, 297, X) }
      \cup { obs("Queen", "Somebody to Love", 99, 799, Y) }
      \cup { obs("Adele", "Hello", 99, 297, X) }

MaxObservations == 5

InitReport ==
  /\ fnPc = "analyzePricing"
  /\ results \in SeqsUpTo(ObservationPool, MaxObservations)
  /\ report = NoReport
  /\ csvRows = << >>
  /\ titleText = << >>
  /\ filterItem = [artist |-> << >>, song |-> << >>]
  /\ titleLabel = NoLabel
  /\ inputText = << >>
  /\ parsedPrice = 0
  /\ items = << >>
  /\ waits = 0
  /\ IdleSchedRest
  /\ IdleExtract
  /\ IdleCli
  /\ IdleGo
  /\ IdleRead

\* The optimizer filters its input list in place: the Failures are gone from it.
observationsFiltered(obs) == SelectSeq(obs, LAMBDA o : o.available)

\* spec.md 3: the Optimizer never mutates its inputs; the list after the call.
observationsAfter(obs) == obs

ApplyAnalyzePricing ==
  /\ fnPc = "analyzePricing"
  /\ report' = analyzePricing(results)
  /\ results' = observationsAfter(results)
  /\ fnPc' = "reported"
  /\ UNCHANGED << schedRest, items, waits, exVars, cliVars, goVars, readVars, titleText, filterItem, titleLabel,
                  inputText, parsedPrice, csvRows >>

\* A second call on the same list.
AnalyzeAgain ==
  /\ fnPc = "reported"
  /\ report' = analyzePricing(results)
  /\ results' = observationsAfter(results)
  /\ fnPc' = "reportedTwice"
  /\ UNCHANGED << schedRest, items, waits, exVars, cliVars, goVars, readVars, titleText, filterItem, titleLabel,
                  inputText, parsedPrice, csvRows >>

\* The first AlbumAnalysis of the report with the track's song among its
\* tracks, the track's artist and savings > 0; 0 when there is none.
matchingAnalysis(rep, track) ==
  LET hits == { i \in 1..Len(rep.albumAnalysis) :
                  /\ \E j \in 1..Len(rep.albumAnalysis[i].tracks) :
                       rep.albumAnalysis[i].tracks[j] = track.song
                  /\ rep.albumAnalysis[i].artist = track.artist
                  /\ rep.albumAnalysis[i].savings > 0 }
  IN  IF hits = {} THEN 0 ELSE CHOOSE i \in hits : \A j \in hits : i <= j

\* let recommendation = ''; for (const analysis of report.albumAnalysis) ..
\* recommendation = `Buy album (save $${analysis.savings.toFixed(2)})`, the
\* savings kept in cents.
recommendationOf(rep, track) ==
  LET i == matchingAnalysis(rep, track)
  IN  IF i = 0 THEN << >> ELSE << "Buy album (save $", rep.albumAnalysis[i].savings, ")" >>

\* report.tracks.map(track => { .. }): the rows of the CSV report
reportRows(rep) ==
  [k \in 1..Len(rep.tracks) |->
     LET track == rep.tracks[k]
     IN  [ artist |-> track.artist,
           song |-> track.song,
           album |-> IF track.album = Undefined THEN "" ELSE track.album,
           trackPrice |-> IF track.available THEN << "$", track.trackPrice >> ELSE << >>,
           albumPrice |-> IF track.albumPrice # 0 THEN << "$", track.albumPrice >> ELSE << >>,
           albumName |-> IF track.albumName = UndefinedText THEN << >> ELSE track.albumName,
           available |-> IF track.available THEN "Yes" ELSE "No",
           recommendation |-> recommendationOf(rep, track),
           error |-> IF track.error = Undefined THEN "" ELSE track.error ]]

\* await CsvHandler.writeReportCsv(report, options.outputCsv)
WriteReportCsv ==
  /\ fnPc = "reported"
  /\ csvRows' = reportRows(report)
  /\ fnPc' = "csvWritten"
  /\ UNCHANGED << schedVars, exVars, cliVars, goVars, readVars, titleText, filterItem, titleLabel,
                  inputText, parsedPrice, report >>

NextReport == ApplyAnalyzePricing \/ AnalyzeAgain \/ WriteReportCsv

SpecReport == InitReport /\ [][NextReport]_vars

\* ------------------------------------------------------ CsvHandler.readMusicCsv
\* The header lines a list may come with: the lower-case names, the
\* capitalised ones with Title for the song, and two that carry both
\* spellings of a column.
HeaderPool ==
  { << "artist", "song", "album" >>,
    << "Artist", "Title", "Album" >>,
    << "artist", "Artist", "Song" >>,
    << "Artist", "song", "title" >> }

\* The cells of a row: empty, blank, and a name with blanks around it.
CellPool == { << >>, << " " >>, << " ", "Q", " " >> }

\* The rows readMusicCsv is followed through.
MaxRows == 2

\* The rows csv() can emit under a header line: one cell for each column.
RowsOf(headers) == [ { headers[k] : k \in 1..Len(headers) } -> CellPool ]

\* row.artist and the like: undefined when the file has no such column
column(row, name) == IF name \in DOMAIN row THEN row[name] ELSE UndefinedText

\* a || b on a cell: b when a is undefined or ''
orElse(a, b) == IF a # UndefinedText /\ a # << >> THEN a ELSE b

\* const artist = row.artist || row.Artist || ''
artistOf(row) == orElse(orElse(column(row, "artist"), column(row, "Artist")), << >>)

\* const song = row.song || row.Song || row.title || row.Title || ''
songOf(row) ==
  orElse(orElse(orElse(orElse(column(row, "song"), column(row, "Song")), column(row, "title")),
                column(row, "Title")), << >>)

\* const album = row.album || row.Album || ''
albumOf(row) == orElse(orElse(column(row, "album"), column(row, "Album")), << >>)

\* The test without the trims: if (artist && song)
keepsRowUntrimmed(row) == artistOf(row) # << >> /\ songOf(row) # << >>

\* if (artist.trim() && song.trim())
keepsRow(row) == trim(artistOf(row)) # << >> /\ trim(songOf(row)) # << >>

\* { artist: artist.trim(), song: song.trim(), album: album.trim() || undefined }
itemOf(row) ==
  [ artist |-> trim(artistOf(row)),
    song |-> trim(songOf(row)),
    album |-> IF trim(albumOf(row)) # << >> THEN trim(albumOf(row)) ELSE Undefined ]

\* .on('data', (row) => { .. })
onData(list, row) == IF keepsRow(row) THEN Append(list, itemOf(row)) ELSE list

InitRead ==
  /\ readPc = "readFile"
  /\ csvHeaders \in HeaderPool
  /\ fileRows = << >>
  /\ musicItems = << >>
  /\ items = << >>
  /\ results = << >>
  /\ waits = 0
  /\ IdleSchedRest
  /\ IdleExtract
  /\ IdleCli
  /\ IdlePure
  /\ IdleGo

readRest == << schedRest, results, waits, exVars, cliVars, pureVars, goVars, csvHeaders >>

\* const fileContent = await fs.readFile(filePath, 'utf8'): the content, or
\* the rejection of readMusicCsv when the file cannot be read.
ReadFile ==
  /\ readPc = "readFile"
  /\ readPc' \in { "stream", "rejected" }
  /\ UNCHANGED << readRest, items, fileRows, musicItems >>

\* One 'data' event of the parser.
OnData ==
  /\ readPc = "stream"
  /\ Len(fileRows) < MaxRows
  /\ \E row \in RowsOf(csvHeaders) :
       /\ fileRows' = Append(fileRows, row)
       /\ musicItems' = onData(musicItems, row)
  /\ UNCHANGED << readRest, items, readPc >>

\* .on('end', () => { .. resolve(items) })
OnEnd ==
  /\ readPc = "stream"
  /\ readPc' = "resolved"
  /\ UNCHANGED << readRest, items, fileRows, musicItems >>

\* .on('error', (error) => { reject(new Error(`Failed to read CSV file: ..`)) })
OnError ==
  /\ readPc = "stream"
  /\ readPc' = "rejected"
  /\ UNCHANGED << readRest, items, fileRows, musicItems >>

\* analyze: const musicItems = await CsvHandler.readMusicCsv(options.input);
\* process.exit(1) on an empty list, else the list goes to
\* scraper.searchMultipleTracks(musicItems).
HandOver ==
  /\ readPc = "resolved"
  /\ IF noItems(Len(musicItems))
       THEN readPc' = "exit" /\ UNCHANGED items
       ELSE readPc' = "searching" /\ items' = musicItems
  /\ UNCHANGED << readRest, fileRows, musicItems >>

\* analyze: catch (error) { .. process.exit(1) }
ReadCatch ==
  /\ readPc = "rejected"
  /\ readPc' = "exit"
  /\ UNCHANGED << readRest, items, fileRows, musicItems >>

NextRead == ReadFile \/ OnData \/ OnEnd \/ OnError \/ HandOver \/ ReadCatch

SpecRead == InitRead /\ [][NextRead]_vars

\* ------------------------------------------------ the Go command-line tool
\* main() of the Go program (src/README.md:738-860), after flag.Parse().
\* The -price flag is never honoured.
priceModeNever(flag) == FALSE

\* if *priceOnly
priceMode(flag) == flag

\* cmd := []string{"npm", "run", "dev", "--", "analyze", "-i", *csvFile}, and
\* the three appends.
pricingCommand(csv, isHeadless, json, csvOut) ==
  << "npm", "run", "dev", "--", "analyze", "-i", csv >>
    \o (IF ~isHeadless THEN << "--visible" >> ELSE << >>)
    \o (IF json # "" THEN << "-o", json >> ELSE << >>)
    \o (IF csvOut # "" THEN << "-c", csvOut >> ELSE << >>)

\* os.Exit(code), log.Fatal (status 1) and the return of main (status 0).
goExited(code) == goPc' = "exited" /\ goExit' = code

goRest == << schedVars, exVars, cliVars, pureVars, readVars, goFlags >>

InitGo ==
  /\ goPc = "main"
  /\ priceOnly \in BOOLEAN
  /\ csvFile \in { "", "list.csv" }
  /\ songArg \in { "", "Queen - Bohemian Rhapsody" }
  /\ headlessFlag \in BOOLEAN
  /\ outputJSON \in { "", "report.json" }
  /\ outputCSV \in { "", "report.csv" }
  /\ nodeModules \in BOOLEAN
  /\ pricingArgs = << >>
  /\ configLoaded = FALSE
  /\ buyerBrowser = FALSE
  /\ loginCalls = 0
  /\ buyCalls = 0
  /\ pricingRuns = 0
  /\ goExit = -1
  /\ items = << >>
  /\ results = << >>
  /\ waits = 0
  /\ IdleSchedRest
  /\ IdleExtract
  /\ IdleCli
  /\ IdlePure
  /\ IdleRead

\* 749-768: the price branch up to the command line, or on to purchase mode.
GoMain ==
  /\ goPc = "main"
  /\ IF priceMode(priceOnly)
       THEN IF csvFile = ""
              THEN goExited(1) /\ UNCHANGED pricingArgs
              ELSE /\ pricingArgs' = pricingCommand(csvFile, headlessFlag, outputJSON, outputCSV)
                   /\ goPc' = "stat"
                   /\ UNCHANGED goExit
       ELSE goPc' = "purchase" /\ UNCHANGED << pricingArgs, goExit >>
  /\ UNCHANGED << goRest, nodeModules, configLoaded, buyerBrowser, loginCalls, buyCalls,
                  pricingRuns >>

\* 773: os.Stat("pricing-service/node_modules")
GoStat ==
  /\ goPc = "stat"
  /\ goPc' = IF nodeModules THEN "run" ELSE "install"
  /\ UNCHANGED << goRest, pricingArgs, nodeModules, configLoaded, buyerBrowser, loginCalls,
                  buyCalls, pricingRuns, goExit >>

\* 775-779: npm install, which may fail
GoInstall ==
  /\ goPc = "install"
  /\ \/ nodeModules' = TRUE /\ goPc' = "run" /\ UNCHANGED goExit
     \/ goExited(1) /\ UNCHANGED nodeModules
  /\ UNCHANGED << goRest, pricingArgs, configLoaded, buyerBrowser, loginCalls, buyCalls,
                  pricingRuns >>

\* 783-792: the pricing service is run, and main returns
GoRunPricing ==
  /\ goPc = "run"
  /\ pricingRuns' = pricingRuns + 1
  /\ \/ goExited(0)
     \/ goExited(1)
  /\ UNCHANGED << goRest, pricingArgs, nodeModules, configLoaded, buyerBrowser, loginCalls,
                  buyCalls >>

\* 796-827: purchase mode needs exactly one of -csv and -song
GoPurchaseArgs ==
  /\ goPc = "purchase"
  /\ IF (csvFile = "" /\ songArg = "") \/ (csvFile # "" /\ songArg # "")
       THEN goExited(1)
       ELSE goPc' = "newBuyer" /\ UNCHANGED goExit
  /\ UNCHANGED << goRest, pricingArgs, nodeModules, configLoaded, buyerBrowser, loginCalls,
                  buyCalls, pricingRuns >>

\* 829-832: NewAmazonMusicBuyer calls loadConfig (332), which reads the
\* configuration file and the credentials, and may fail
GoNewBuyer ==
  /\ goPc = "newBuyer"
  /\ configLoaded' = TRUE
  /\ \/ goPc' = "initialize" /\ UNCHANGED goExit
     \/ goExited(1)
  /\ UNCHANGED << goRest, pricingArgs, nodeModules, buyerBrowser, loginCalls, buyCalls,
                  pricingRuns >>

\* 834-837: buyer.Initialize launches the browser, or fails
GoInitialize ==
  /\ goPc = "initialize"
  /\ \/ buyerBrowser' = TRUE /\ goPc' = "login" /\ UNCHANGED goExit
     \/ goExited(1) /\ UNCHANGED buyerBrowser
  /\ UNCHANGED << goRest, pricingArgs, nodeModules, configLoaded, loginCalls, buyCalls,
                  pricingRuns >>

\* 839-841: buyer.Login
GoLogin ==
  /\ goPc = "login"
  /\ loginCalls' = loginCalls + 1
  /\ \/ goPc' = "buy" /\ UNCHANGED goExit
     \/ goExited(1)
  /\ UNCHANGED << goRest, pricingArgs, nodeModules, configLoaded, buyerBrowser, buyCalls,
                  pricingRuns >>

\* 843-860: SearchAndBuy for the song, or for every row of the CSV (695)
GoBuy ==
  /\ goPc = "buy"
  /\ IF songArg # ""
       THEN \/ buyCalls' = buyCalls + 1 /\ (goExited(0) \/ goExited(1))
            \/ goExited(1) /\ UNCHANGED buyCalls
       ELSE \/ \E rows \in 0..MaxCsvItems : buyCalls' = buyCalls + rows /\ goExited(0)
            \/ goExited(1) /\ UNCHANGED buyCalls
  /\ UNCHANGED << goRest, pricingArgs, nodeModules, configLoaded, buyerBrowser, loginCalls,
                  pricingRuns >>

NextGo ==
  \/ GoMain \/ GoStat \/ GoInstall \/ GoRunPricing
  \/ GoPurchaseArgs \/ GoNewBuyer \/ GoInitialize \/ GoLogin \/ GoBuy

SpecGo == InitGo /\ [][NextGo]_vars

\* ================================================================= claims

\* The chunk and the position in it of the item at the 1-based input position g.
TaskOf(g) == << ((g - 1) \div concurrency) + 1, ((g - 1) % concurrency) + 1 >>
\* The concatenation of a sequence of sequences.
RECURSIVE Flatten(_)
Flatten(ss) == IF ss = << >> THEN << >> ELSE Head(ss) \o Flatten(Tail(ss))
ObsWellFormed(o) ==
  /\ o.available <=> o.trackPrice > 0
  /\ ~o.available => (o.error # Undefined /\ o.error # "")
IsFailure(obs) == obs.available = FALSE /\ obs.error # Undefined /\ obs.error # ""

\* C1: no extraction of a later chunk has started while an extraction of an
\* earlier chunk has not completed: every started task finds all tasks of all
\* earlier chunks settled, and while a task is in flight no task of a later
\* chunk has started (so a task that never settles holds every later chunk back).
C1_ChunkBarrier ==
  /\ \A t \in Started : \A c \in 1..(t[1] - 1) : \A u \in ChunkTasks(c) : u \in DOMAIN settled
  /\ \A u \in inflight : \A t \in Started : t[1] <= u[1]

\* A second chunk is running after a first chunk of at least two tasks.
C1_Witness ==
  /\ Len(chunks) >= 2
  /\ Len(chunks[1]) >= 2
  /\ \E t \in inflight : t[1] = 2

\* C2: a fault inside one extraction gives that item a Failure observation and
\* nothing else: the task's promise still fulfils, a sibling that read a price
\* keeps it, the run is never aborted once extractions have started, and a
\* returned run has settled every task of every chunk.
C2_FailureIsolation ==
  /\ \A t \in DOMAIN settled :
       /\ settled[t].kind = "fulfilled"
       /\ taskRun[t].kind = "fault" => IsFailure(settled[t].value)
       /\ (taskRun[t].kind = "priced" /\ extractPrice(taskRun[t].text) > 0) =>
            /\ settled[t].value.available
            /\ settled[t].value.trackPrice = extractPrice(taskRun[t].text)
  /\ completion = "throw" => Started = {}
  /\ pc = "returned" =>
       /\ Len(results) = Len(items)
       /\ \A c \in 1..Len(chunks) : \A u \in ChunkTasks(c) : u \in DOMAIN settled

\* A returned run in which the first task of a two-task chunk faulted, its
\* sibling read a price, and a later chunk was processed.
C2_Witness ==
  /\ pc = "returned"
  /\ Len(chunks) >= 2
  /\ Len(chunks[1]) >= 2
  /\ taskRun[<<1, 1>>].kind = "fault"
  /\ results[1].available = FALSE
  /\ results[2].available = TRUE
  /\ <<2, 1>> \in DOMAIN settled

\* C3: every observation an extractor returns, on every way out, and every
\* observation the chunk task hands on (the fallback record of its catch
\* included) has available = TRUE exactly when trackPrice > 0 and, when
\* available = FALSE, an error that is a non-empty string.
C3_ObservationInvariant ==
  /\ exPc = "returned" => ObsWellFormed(result)
  /\ \A k \in 1..Len(results) : ObsWellFormed(results[k])
  /\ \A item \in ItemPool, f \in Faults : ObsWellFormed(FallbackResult(item, errorText(f)))

\* The sequential loop has returned a priced observation and then one of a
\* fault caught with an empty message.
C3_Witness ==
  /\ exPc = "seqReturned"
  /\ Len(results) = 2
  /\ results[1].available /\ results[1].trackPrice > 0
  /\ ~results[2].available /\ results[2].error = "Search failed: "

\* An early return: no search result under any selector, in a chunk task.
C3_WitnessEarlyReturn ==
  /\ exPc = "taskSettled"
  /\ results[1].error = "No search results found with any selector pattern"

\* C4: a returned run holds exactly one observation per item, observation k
\* being the one the extraction of items[k] produced, whatever the order in
\* which the extractions of a chunk settled.
C4_ResultsInInputOrder ==
  pc = "returned" =>
    /\ Len(results) = Len(items)
    /\ \A k \in 1..Len(items) :
         /\ results[k].artist = items[k].artist
         /\ results[k].song = items[k].song
         /\ results[k].album = items[k].album
         /\ TaskOf(k) \in DOMAIN settled
         /\ results[k] = settled[TaskOf(k)].value

\* A returned run over distinct items in which a chunk settled out of order.
C4_Witness ==
  /\ pc = "returned"
  /\ reordered
  /\ Len(items) >= 2
  /\ items[1] # items[2]

\* C5: no page is used by two extractions in flight, and every extraction in
\* flight runs on a page of the pool.
C5_NoSharedSession ==
  /\ \A t, u \in inflight : t # u => taskPage[t] # taskPage[u]
  /\ \A t \in inflight : \E k \in 1..Len(pages) : pages[k] = taskPage[t]

\* Two extractions in flight in a run with fewer items than the concurrency.
C5_Witness ==
  /\ Cardinality(inflight) >= 2
  /\ Len(items) < concurrency

\* C6: at most `concurrency` extractions are in flight.
C6_AtMostCInFlight == Cardinality(inflight) <= concurrency

\* A full chunk in flight in a run of several chunks.
C6_Witness ==
  /\ concurrency >= 2
  /\ Len(chunks) >= 2
  /\ Cardinality(inflight) = concurrency

\* C7: when searchMultipleTracks has returned or thrown, context.close() has
\* been called on every context that newContext() created.
C7_AllSessionsReleased ==
  pc \in { "returned", "thrown" } => created \subseteq closeTried

\* C8: when the process of an analyze or price command has ended after
\* initialize() returned, scraper.close() has been called.
C8_CloseBeforeExit == (cliPc = "exited" /\ initialized) => closeCalled

\* C9: no call of an extractor ends with an exception: whatever a page
\* operation throws while an item is processed, the call returns an observation.
C9_ExtractorNeverThrows == exPc # "thrown"

\* C10: chunkArray yields ceil(N/C) chunks, chunk i being
\* items[(i-1)*C .. min(N, i*C)), so that no chunk is empty, only the last may
\* be shorter than C, and every position of the input lies in exactly one chunk.
C10_ChunkArray ==
  pc = "chunked" =>
    LET N == Len(items)
        C == concurrency
    IN  /\ Len(chunks) = (N + C - 1) \div C
        /\ \A i \in 1..Len(chunks) :
             /\ chunks[i] = [k \in 1..(Min(N, i * C) - (i - 1) * C) |-> items[(i - 1) * C + k]]
             /\ Len(chunks[i]) >= 1
             /\ i < Len(chunks) => Len(chunks[i]) = C
        /\ Flatten(chunks) = items

\* An input whose last chunk is shorter than the others.
C10_Witness ==
  /\ pc = "chunked"
  /\ Len(chunks) >= 3
  /\ Len(chunks[1]) >= 2
  /\ Len(chunks[Len(chunks)]) < concurrency

\* The 1-based position in the input list of the item of task t, counted
\* through the chunks before it.
InputPos(t) == Len(Flatten(SubSeq(chunks, 1, t[1] - 1))) + t[2]

\* C11: the item at the 0-based input position g is extracted on the session
\* created g mod concurrency-th (0-based), whatever the size of the pool; the
\* task of that position holds that item.
C11_SessionByPosition ==
  \A t \in Started :
    /\ InputPos(t) \in 1..Len(items)
    /\ chunks[t[1]][t[2]] = items[InputPos(t)]
    /\ ((InputPos(t) - 1) % concurrency) + 1 \in 1..Len(pages)
    /\ taskPage[t] = pages[((InputPos(t) - 1) % concurrency) + 1]

\* The third item of a run with concurrency 2 has started, on the first session.
C11_Witness ==
  /\ concurrency = 2
  /\ Len(items) = 3
  /\ <<2, 1>> \in Started
  /\ taskPage[<<2, 1>>] = pages[1]

\* C12 (amended): once an extraction has started, exactly
\* min(concurrency, items.length) sessions have been created, each with a
\* context and a page of its own, and no session is created from then on.
C12_PoolBeforeExtraction ==
  Started # {} =>
    /\ Len(pages) = Min(concurrency, Len(items))
    /\ Len(contexts) = Len(pages)
    /\ Cardinality(created) = Len(pages)
    /\ \A j, k \in 1..Len(pages) : j # k => (pages[j] # pages[k] /\ contexts[j] # contexts[k])
    /\ pc \notin { "initSessions", "newPage", "route" }

\* An extraction has started in a run with fewer items than the concurrency.
C12_Witness ==
  /\ Started # {}
  /\ Len(items) = 1
  /\ concurrency = 3
  /\ Len(pages) = 1

\* C12 as stated: once an extraction has started, exactly `concurrency`
\* sessions have been created.
C12_ExactlyCSessions == Started # {} => Len(pages) = concurrency

\* C13: the delay is served between the join of a chunk and the start of the
\* next one and nowhere else: chunk c starts after c - 1 delays, and a run
\* over K >= 1 chunks that returns has served exactly K - 1 delays.
C13_DelayBetweenChunks ==
  /\ \A t \in Started : waits >= t[1] - 1
  /\ pc = "join" => waits = chunkIndex - 1
  /\ pc = "delay" => (waits = chunkIndex - 1 /\ chunkIndex < Len(chunks))
  /\ (pc = "returned" /\ Len(chunks) >= 1) => waits = Len(chunks) - 1
  /\ Len(chunks) = 0 => waits = 0

\* A run over three chunks has returned.
C13_Witness ==
  /\ pc = "returned"
  /\ Len(chunks) = 3
  /\ waits = 2

\* C14: results holds exactly the observations of the first j chunks, for some
\* j, in order; every task of those chunks has settled, and results holds the
\* settled value of each; no observation of a chunk with a task in flight is
\* in it.
C14_OnlyFinalizedObservations ==
  \E j \in 0..Len(chunks) :
    /\ Len(results) = Len(Flatten(SubSeq(chunks, 1, j)))
    /\ \A t \in inflight : t[1] > j
    /\ \A k \in 1..Len(results) :
         /\ TaskOf(k) \in DOMAIN settled
         /\ TaskOf(k) \notin inflight
         /\ results[k] = settled[TaskOf(k)].value

\* results holds the two observations of the first chunk while the second
\* chunk has its first task in flight.
C14_Witness ==
  /\ pc = "join"
  /\ chunkIndex = 2
  /\ Len(results) = 2
  /\ <<2, 1>> \in inflight

\* The fields of an observation that the two extractors are compared on.
Observable(o) == << o.available, o.trackPrice, o.albumPrice, o.albumName, o.error >>

\* C15: whatever searchForTrack returns for an item, searchForTrackWithPage
\* returns for the same item on some page run an observation with the same
\* available, trackPrice, albumPrice, albumName and error.
C15_SameObservations ==
  (variant = "single" /\ exPc = "returned") =>
     \E run \in AllPageRuns :
        Observable(result) = Observable(searchForTrackWithPage(items[processed], run).value)

\* C16: when the sequential loop is back at its head or has returned, a
\* delay has been served after every item it has processed, whatever the
\* item's outcome.
C16_DelayAfterEveryItem ==
  (variant = "single" /\ exPc \in { "seqLoop", "seqReturned" }) => waits >= processed

\* The states of an item whose candidate was accepted and its link followed,
\* and the states in which the work on the item is over.
AcceptedPcs == { "gotoProduct", "menu", "price", "priceFound", "album" }
ItemEndPcs == { "afterLoop", "rateLimit", "returned", "thrown" }

\* C17 (amended): once a search result has passed the filter and a product
\* link has been found for it, no search result is examined for the item any
\* more: from then on the extractor only works on the product page and ends.
C17_NoScanAfterLink ==
  [][ /\ exPc \in AcceptedPcs => exPc' \in AcceptedPcs \cup ItemEndPcs
      /\ exPc \in ItemEndPcs => exPc' \notin { "scan", "link" } ]_vars

\* The second of four results was accepted and its link is being followed.
C17_Witness ==
  /\ exPc = "gotoProduct"
  /\ scanI = 1
  /\ nResults = 4

\* C17 as stated: once a search result has passed the filter (the link
\* cascade is about to run on it), no later search result is examined.
C17_StopAtFirstPassing == [][exPc = "link" => exPc' # "scan"]_vars

\* The first positive price of the texts, in order; 0 when there is none.
RECURSIVE FirstPositive(_)
FirstPositive(texts) ==
  IF texts = << >> THEN 0
  ELSE IF parsePrice(Head(texts)) > 0 THEN parsePrice(Head(texts))
  ELSE FirstPositive(Tail(texts))

\* C18: with a positive price parsed from a text of the cascade, the record is
\* a Success whose trackPrice is the first positive price in cascade order;
\* from there the extractor goes to its return (through the album lookups in
\* searchForTrack) with trackPrice and available left as they are, and the
\* returned record is the one handed to the caller.
C18_FirstPriceIsFinal ==
  /\ [](exPc = "priceFound" =>
          /\ result.available
          /\ result.trackPrice > 0
          /\ result.trackPrice = FirstPositive(productPage.priceTexts))
  /\ [][ /\ (exPc = "price" /\ FirstPositive(productPage.priceTexts) > 0) => exPc' = "priceFound"
         /\ exPc \in { "priceFound", "album" } =>
              /\ exPc' \in { "album", "returned" }
              /\ result'.available
              /\ result'.trackPrice = result.trackPrice
         /\ (exPc = "returned" /\ result.available) =>
              /\ exPc' \in { "seqDelay", "seqLoop", "taskSettled" }
              /\ results'[Len(results')] = result ]_vars

\* A price was found in the second text of the cascade, after a text with none.
C18_Witness ==
  /\ exPc = "priceFound"
  /\ Len(productPage.priceTexts) = 2
  /\ parsePrice(productPage.priceTexts[1]) = 0
  /\ result.trackPrice = parsePrice(productPage.priceTexts[2])

\* The states of an item from the Refine step on.
AfterCheckPcs ==
  { "refine", "debug", "locate", "scan", "link", "gotoProduct", "menu", "price", "priceFound",
    "album", "afterLoop", "rateLimit", "returned", "thrown" }

\* C19 (amended): when the results of the first search page were counted, the
\* extractor performs the Refine step exactly when the count is below 3, and
\* with 3 or more it goes on to locate the results without navigating again;
\* when counting them failed it goes on without Refine, whatever the page
\* shows.  Refine is entered from the count only, and never a second time for
\* the item.
C19_RefineWhenCountedFew ==
  [][ /\ exPc = "count" => exPc' \in { "counted", afterCount(variant) }
      /\ exPc = "counted" =>
           exPc' = IF resultCount < GoodResultCount THEN "refine" ELSE afterCount(variant)
      /\ exPc' = "refine" => exPc = "counted"
      /\ exPc = "refine" => exPc' = afterCount(variant)
      /\ exPc \in AfterCheckPcs => exPc' \notin { "gotoSearch", "count", "counted", "refine" } ]_vars

\* Two results were counted on the first search page and Refine is under way.
C19_Witness ==
  /\ exPc = "refine"
  /\ resultCount = GoodResultCount - 1

\* C19 as stated: leaving the result check, the extractor performs Refine
\* exactly when the first search page shows fewer than 3 results.
C19_RefineExactlyWhenFew ==
  [][ (exPc \in { "count", "counted" } /\ exPc' \notin { "count", "counted" }) =>
        (exPc' = "refine" <=> resultCount < GoodResultCount) ]_vars

\* The product page shows a parseable album price and a product title.
ShowsAlbum(pg) ==
  /\ albumPriceOf(pg.albumTexts, 0) > 0
  /\ pg.albumTitle # UndefinedText
  /\ trim(pg.albumTitle) # << >>

\* C20: a Success observation returned from a product page that shows a
\* parseable album price and a product title carries that album price and
\* that title, in either extractor.
C20_AlbumFieldsCarried ==
  (exPc = "returned" /\ result.available /\ ShowsAlbum(productPage)) =>
     /\ result.albumPrice = albumPriceOf(productPage.albumTexts, 0)
     /\ result.albumName = trim(productPage.albumTitle)

\* The album-price lookup found nothing: no element visible, or no text
\* with a price in bounds.
AlbumPriceMissing(pg) == \A k \in 1..Len(pg.albumTexts) : parsePrice(pg.albumTexts[k]) = 0

\* The album-title lookup found nothing: it threw, or the title is null or empty.
AlbumTitleMissing(pg) == pg.albumTitle = UndefinedText \/ pg.albumTitle = << >>

\* C21: after the track price was found, the album lookups of searchForTrack
\* end in the return of a Success with the same trackPrice and no error,
\* whatever they find; a lookup that found nothing leaves its field absent.
C21_AlbumLookupNonFatal ==
  [][ exPc = "album" =>
        /\ exPc' = "returned"
        /\ result'.available
        /\ result'.trackPrice = result.trackPrice
        /\ result'.error = Undefined
        /\ AlbumPriceMissing(productPage) => result'.albumPrice = 0
        /\ AlbumTitleMissing(productPage) => result'.albumName = UndefinedText ]_vars

\* A Success returned from a page whose only album-price text has no price and
\* whose title lookup threw.
C21_Witness ==
  /\ variant = "single"
  /\ exPc = "returned"
  /\ result.available
  /\ productPage.albumTexts = << << "F", "r", "e", "e" >> >>
  /\ productPage.albumTitle = UndefinedText
  /\ result.albumPrice = 0
  /\ result.albumName = UndefinedText

C23_OneExtractionAtATime ==
  concurrency = DefaultConcurrency => Cardinality(inflight) <= 1

\* The statements of initialize(), from chromium.launch to page.route.
InitializePcs == { "launch", "newContext", "newPage", "route" }

\* C24: analyze ends with exit status 1 when the item list is empty, without
\* a scraper, a browser or an extraction, and when initialize() fails, through
\* the catch block; a search that returns goes on to the report with one
\* observation per item, however many of them are Failures.
C24_FatalConditions ==
  /\ [](cmd = "analyze" =>
          /\ (cliPc = "exited" /\ ~scraper) =>
               (exitCode = 1 /\ browser = "null" /\ ~initialized /\ results = << >>)
          /\ (cliPc = "exited" /\ scraper /\ ~initialized) => (exitCode = 1 /\ results = << >>)
          /\ cliPc \in { "report", "writeJson", "writeCsv" } => Len(results) = nItems)
  /\ [][ cmd = "analyze" =>
           /\ (cliPc = "readCsv" /\ cliPc' # "catch" /\ nItems' = 0) =>
                (cliPc' = "exited" /\ exitCode' = 1)
           /\ (cliPc \in InitializePcs /\ cliPc' \notin InitializePcs /\ ~initialized') =>
                cliPc' = "catch"
           /\ cliPc = "catch" => (cliPc' = "exited" /\ exitCode' = 1)
           /\ (cliPc = "search" /\ results' # << >>) => cliPc' = "report" ]_vars

\* An analyze run over two items that both ended in a Failure has exited with
\* status 0.
C24_Witness ==
  /\ cmd = "analyze"
  /\ cliPc = "exited"
  /\ exitCode = 0
  /\ Len(results) = 2
  /\ \A k \in 1..2 : IsFailure(results[k])

\* The blocklist: poster, print, wall art, t-shirt, mug, vinyl, 'cd ', dvd, book.
Blocklist ==
  { << "p", "o", "s", "t", "e", "r" >>,
    << "p", "r", "i", "n", "t" >>,
    << "w", "a", "l", "l", " ", "a", "r", "t" >>,
    << "t", "-", "s", "h", "i", "r", "t" >>,
    << "m", "u", "g" >>,
    << "v", "i", "n", "y", "l" >>,
    << "c", "d", " " >>,
    << "d", "v", "d" >>,
    << "b", "o", "o", "k" >> }

\* The lower-cased title contains the lower-cased text.
ContainsLower(t, text) ==
  \E i \in 1..Len(t), j \in 0..Len(t) :
    /\ j - i + 1 = Len(text)
    /\ \A k \in 1..Len(text) : toLowerChar(t[i + k - 1]) = toLowerChar(text[k])

\* C25: the filter accepts a title exactly when, lower-cased, it contains the
\* lower-cased song or the lower-cased artist and none of the blocklist
\* keywords; a title with a blocklist keyword is rejected even when song and
\* artist both match.
C25_CandidateFilter ==
  fnPc = "filtered" =>
    /\ acceptable(titleLabel) <=>
         /\ ContainsLower(titleText, filterItem.song) \/ ContainsLower(titleText, filterItem.artist)
         /\ \A kw \in Blocklist : ~ContainsLower(titleText, kw)
    /\ (\E kw \in Blocklist : ContainsLower(titleText, kw)) => ~acceptable(titleLabel)

\* "Queen - Bohemian Rhapsody Poster" for Queen's Bohemian Rhapsody: song and
\* artist match, and the title is rejected.
C25_Witness ==
  /\ fnPc = "filtered"
  /\ titleLabel.songMatch
  /\ titleLabel.artistMatch
  /\ titleLabel.isMerchandise
  /\ ~acceptable(titleLabel)

\* The match is of a value v with 0 < v < 50.
InRange(m) == m.found /\ m.cents > 0 /\ m.cents < 5000

\* C26: extractPrice returns the value of the first of its four patterns, in
\* the order $d.dd, $d, d.dd, d . dd, whose leftmost match is of a value
\* strictly between 0 and 50, and 0 when no pattern has such a match; its
\* result is 0 or strictly between 0 and 50.
C26_ExtractPrice ==
  fnPc = "priceReturned" =>
    LET cleanText == trim(stripControl(inputText))
        ms == << matchDollarDecimal(cleanText), matchDollarInteger(cleanText),
                 matchBareDecimal(cleanText), matchSpacedDecimal(cleanText) >>
    IN  /\ parsedPrice = 0 \/ (parsedPrice > 0 /\ parsedPrice < 5000)
        /\ (\A k \in 1..4 : ~InRange(ms[k])) => parsedPrice = 0
        /\ \A k \in 1..4 :
             (InRange(ms[k]) /\ \A j \in 1..(k - 1) : ~InRange(ms[j])) => parsedPrice = ms[k].cents
        /\ inputText = << "$", "1", ".", "2", "9" >> => parsedPrice = 129
        /\ inputText = << "O", "r", "d", "e", "r", " ", "t", "o", "t", "a", "l", ":", " ", "$", "1", "2", ".", "5", "0", " ", "d", "u", "e" >> => parsedPrice = 1250
        /\ inputText = << "$", "7", "5", ".", "0", "0" >> => parsedPrice = 0
        /\ inputText = << "n", "o", " ", "d", "i", "g", "i", "t", "s", " ", "h", "e", "r", "e" >> => parsedPrice = 0

\* '0.99$75.00': the $d.dd and $d patterns match 75, out of range, and the
\* third pattern gives 0.99.
C26_Witness ==
  /\ fnPc = "priceReturned"
  /\ inputText = << "0", ".", "9", "9", "$", "7", "5", ".", "0", "0" >>
  /\ parsedPrice = 99

RECURSIVE SumOver(_, _)
SumOver(f, S) ==
  IF S = {} THEN 0 ELSE LET k == CHOOSE x \in S : TRUE IN f[k] + SumOver(f, S \ {k})

\* The positions of the available observations handed to the optimizer.
Available == { k \in 1..Len(results) : results[k].available }

\* The positions of the (artist, albumName) group of position k: the available
\* observations with a positive albumPrice and the same artist and albumName.
GroupOf(k) ==
  { j \in Available : /\ results[j].albumPrice > 0
                      /\ results[j].artist = results[k].artist
                      /\ results[j].albumName = results[k].albumName }

Grouped == { k \in Available : results[k].albumPrice > 0 }

\* The analyses of the report made for the group of position k.
AnalysesOf(k) ==
  { i \in 1..Len(report.albumAnalysis) :
      /\ report.albumAnalysis[i].artist = results[k].artist
      /\ report.albumAnalysis[i].albumName = results[k].albumName }

\* The positions covered by an album the report found savings in.
Covered ==
  { k \in Grouped : \E i \in AnalysesOf(k) : report.albumAnalysis[i].savings > 0 }

\* C28: for every list of observations, optimizedCost is the albumPrice of each
\* album group with savings > 0, counted once, plus the trackPrice of every
\* available observation that no such group covers; so optimizedCost <=
\* totalCost, strictly below it when some group has savings > 0, and equal to it
\* when no group has 3 members.
C28_OptimizedCost ==
  fnPc = "reported" =>
    LET saving == { i \in 1..Len(report.albumAnalysis) : report.albumAnalysis[i].savings > 0 }
    IN  /\ report.optimizedCost =
             SumOver([i \in 1..Len(report.albumAnalysis) |-> report.albumAnalysis[i].albumPrice],
                     saving)
               + SumOver([k \in 1..Len(results) |-> results[k].trackPrice], Available \ Covered)
        /\ report.optimizedCost <= report.totalCost
        /\ saving # {} => report.optimizedCost < report.totalCost
        /\ (\A k \in Grouped : Cardinality(GroupOf(k)) < 3) =>
             report.optimizedCost = report.totalCost

\* An album of three tracks at 0.99, 0.99 and 1.29 for 2.97 was bought, and a
\* fourth track on no album at 1.29: 4.26 instead of 4.56.
C28_Witness ==
  /\ fnPc = "reported"
  /\ Len(results) = 4
  /\ Cardinality(Covered) = 3
  /\ Cardinality(Available \ Covered) = 1
  /\ report.optimizedCost = 426
  /\ report.totalCost = 456

\* C29: the report has an AlbumAnalysis for an (artist, albumName) group exactly
\* when the group has at least 3 available observations with a positive
\* albumPrice, and one only; every AlbumAnalysis has trackCount = len(tracks) >=
\* 3 and savings = totalTrackPrice - albumPrice, and one with savings <= 0
\* recommends "Buy individual tracks".
C29_AlbumAnalysis ==
  fnPc = "reported" =>
    /\ \A k \in Grouped :
         Cardinality(AnalysesOf(k)) = IF Cardinality(GroupOf(k)) >= 3 THEN 1 ELSE 0
    /\ \A i \in 1..Len(report.albumAnalysis) :
         LET a == report.albumAnalysis[i]
         IN  /\ \E k \in Grouped :
                  /\ i \in AnalysesOf(k)
                  /\ a.trackCount = Cardinality(GroupOf(k))
                  /\ a.albumPrice = results[k].albumPrice
                  /\ a.totalTrackPrice =
                       SumOver([j \in 1..Len(results) |-> results[j].trackPrice], GroupOf(k))
             /\ a.trackCount = Len(a.tracks)
             /\ a.trackCount >= 3
             /\ a.savings = a.totalTrackPrice - a.albumPrice
             /\ a.savings <= 0 => a.recommendation = "Buy individual tracks"

\* Three tracks at 0.99 on an album of 7.99 were analysed, with savings below
\* zero, and two tracks on another album were not.
C29_Witness ==
  /\ fnPc = "reported"
  /\ Len(results) = 5
  /\ Len(report.albumAnalysis) = 1
  /\ report.albumAnalysis[1].trackCount = 3
  /\ report.albumAnalysis[1].savings < 0
  /\ report.albumAnalysis[1].recommendation = "Buy individual tracks"
  /\ \E k \in Grouped : Cardinality(GroupOf(k)) = 2 /\ AnalysesOf(k) = {}

\* C30: every report has totalSavings = totalCost - optimizedCost,
\* savingsPercentage = 100 * totalSavings / totalCost when totalCost > 0 and 0
\* otherwise, totalTracks = the number of observations, availableTracks = the
\* number of available ones, and totalCost = the sum of their trackPrice.
C30_ReportTotals ==
  fnPc = "reported" =>
    /\ report.totalSavings = report.totalCost - report.optimizedCost
    /\ report.savingsPercentage[2] > 0
    /\ IF report.totalCost > 0
         THEN report.savingsPercentage[1] * report.totalCost =
                100 * report.totalSavings * report.savingsPercentage[2]
         ELSE report.savingsPercentage[1] = 0
    /\ report.totalTracks = Len(results)
    /\ report.availableTracks = Cardinality(Available)
    /\ report.totalCost = SumOver([k \in 1..Len(results) |-> results[k].trackPrice], Available)

\* A Failure and an album of three: 4 tracks, 3 available, 3.27 in all, 2.97
\* optimized, 0.30 saved, which is 3000/327 percent.
C30_Witness ==
  /\ fnPc = "reported"
  /\ report.totalTracks = 4
  /\ report.availableTracks = 3
  /\ report.totalCost = 327
  /\ report.totalSavings = 30
  /\ report.savingsPercentage[1] * 327 = 3000 * report.savingsPercentage[2]

C32_PriceModeNoLogin ==
  priceOnly /\ goPc # "idle" =>
    /\ ~configLoaded
    /\ ~buyerBrowser
    /\ loginCalls = 0
    /\ buyCalls = 0
    /\ goPc \notin { "purchase", "newBuyer", "initialize", "login", "buy" }
    /\ pricingRuns <= 1
    /\ pricingRuns = 1 =>
         /\ csvFile # ""
         /\ SubSeq(pricingArgs, 1, 7) = << "npm", "run", "dev", "--", "analyze", "-i", csvFile >>
    /\ goExit = 0 => pricingRuns = 1

\* A run with -price, -csv and -song has ended with status 0 after one run of
\* the pricing service.
C32_Witness ==
  /\ priceOnly
  /\ songArg # ""
  /\ goPc = "exited"
  /\ goExit = 0
  /\ pricingRuns = 1
  /\ pricingArgs = << "npm", "run", "dev", "--", "analyze", "-i", "list.csv", "-c", "report.csv" >>

\* C33: for every item the extractor calls page.goto at most twice for a search
\* page and at most once for a product page, and once the product page has
\* been navigated to it examines no search result any more, price or no
\* price: the item then ends, as a Failure when no price was found.
C33_NavigationsPerItem ==
  /\ searchGotos \in 0..2
  /\ productGotos \in 0..1
  /\ productGotos = 1 =>
       exPc \in { "menu", "price", "priceFound", "album", "afterLoop", "rateLimit", "returned",
                  "thrown" }
  /\ exPc \in { "count", "counted" } => searchGotos = 1

\* An item has ended as a Failure after two search navigations and one product
\* page on which no price was found.
C33_Witness ==
  /\ exPc = "returned"
  /\ searchGotos = 2
  /\ productGotos = 1
  /\ ~result.available
  /\ result.error = "No MP3 price found for this track"

\* C34: in searchForTrackWithPage the price cascade runs only after a buy
\* option was clicked (foundMenuButton); when none was, no price element is
\* read and the item ends as a Failure with 'No MP3 price found for this
\* track'.
C34_PriceOnlyAfterBuyOption ==
  /\ [](variant = "withPage" =>
          /\ exPc \in { "price", "priceFound" } => foundMenuButton
          /\ productPage.priceTexts # << >> => foundMenuButton)
  /\ [][ variant = "withPage" /\ exPc = "menu" /\ ~foundMenuButton' =>
           /\ exPc' = "afterLoop"
           /\ result' = result
           /\ productPage' = NoPage ]_vars
  /\ [][ variant = "withPage" /\ exPc = "afterLoop" /\ ~foundMenuButton =>
           /\ exPc' = "returned"
           /\ ~foundMenuButton'
           /\ ~result'.available
           /\ result'.error = "No MP3 price found for this track" ]_vars

\* The batch extractor visited a product page, clicked no buy option and
\* returned the Failure.
C34_Witness ==
  /\ variant = "withPage"
  /\ exPc = "returned"
  /\ productGotos = 1
  /\ ~foundMenuButton
  /\ ~result.available
  /\ result.error = "No MP3 price found for this track"

\* C35: for every item list and every integer concurrency, when every session
\* operation and every extraction completes, searchMultipleTracks eventually
\* ends: the chunks are built and processed and the call returns or rethrows
\* after its finally block.
C35_EventuallyReturns == <>(pc \in { "returned", "thrown" })

\* The observation o carries the artist, song and album of the item and the
\* query made of artist, a space and song, followed by a space and the album
\* exactly when the item has a non-empty album.
Carries(o, item) ==
  /\ o.artist = item.artist
  /\ o.song = item.song
  /\ o.album = item.album
  /\ o.searchQuery =
       IF item.album \in { "", Undefined }
         THEN item.artist \o " " \o item.song
         ELSE item.artist \o " " \o item.song \o " " \o item.album

C37_RecommendationIffCovered ==
  fnPc = "csvWritten" =>
    /\ Len(csvRows) = Len(results)
    /\ \A k \in 1..Len(csvRows) : (csvRows[k].recommendation # << >>) <=> k \in Covered

\* C38: readMusicCsv returns, in row order, exactly one item for each row whose
\* artist and song are both non-empty after trimming, and none for any other
\* row; an empty or whitespace-only album yields an absent album; every item
\* that reaches the scheduler has a non-empty artist and song.
Blank(text) == \A k \in 1..Len(text) : IsSpace(text[k])
\* text without the whitespace at its two ends
Trimmed(short, text) ==
  \E i \in 1..(Len(text) + 1), j \in 0..Len(text) :
    /\ short = SubSeq(text, i, j)
    /\ \A k \in 1..(i - 1) : IsSpace(text[k])
    /\ \A k \in (j + 1)..Len(text) : IsSpace(text[k])
    /\ short # << >> => ~IsSpace(short[1]) /\ ~IsSpace(short[Len(short)])
KeptRows == SelectSeq([k \in 1..Len(fileRows) |-> k],
                      LAMBDA k : ~Blank(artistOf(fileRows[k])) /\ ~Blank(songOf(fileRows[k])))
C38_ReadMusicCsv ==
  /\ readPc \in { "stream", "resolved", "searching", "exit" } =>
       /\ Len(musicItems) = Len(KeptRows)
       /\ \A j \in 1..Len(musicItems) :
            LET row == fileRows[KeptRows[j]]
            IN  /\ Trimmed(musicItems[j].artist, artistOf(row))
                /\ Trimmed(musicItems[j].song, songOf(row))
                /\ musicItems[j].artist # << >> /\ musicItems[j].song # << >>
                /\ IF Blank(albumOf(row)) THEN musicItems[j].album = Undefined
                   ELSE Trimmed(musicItems[j].album, albumOf(row))
  /\ readPc = "searching" =>
       /\ items = musicItems
       /\ items # << >>
       /\ \A j \in 1..Len(items) : items[j].artist # << >> /\ items[j].song # << >>
  /\ readPc # "searching" => items = << >>
C38_Witness ==
  /\ readPc = "searching"
  /\ csvHeaders = << "Artist", "Title", "Album" >>
  /\ Len(fileRows) = 2
  /\ fileRows[1] = [Artist |-> << " ", "Q", " " >>, Title |-> << " " >>, Album |-> << " ", "Q", " " >>]
  /\ fileRows[2] = [Artist |-> << " ", "Q", " " >>, Title |-> << " ", "Q", " " >>, Album |-> << " " >>]
  /\ items = << [artist |-> << "Q" >>, song |-> << "Q" >>, album |-> Undefined] >>

====
